---- MODULE Spec2Model ----
(***************************************************************************)
(* FrameForge: the phase session state machine of app.py and the           *)
(* deterministic phase algorithms (prompt refiner, intelligent             *)
(* questioning, narrative reasoning, scene planning).                      *)
(*                                                                         *)
(* Python strings are TLA+ strings; TLC evaluates Len, SubSeq and \o on    *)
(* them, so substring tests, lower(), strip(), split() and replace() are   *)
(* computed character by character as the Python library computes them.    *)
(* Python's None is the empty tuple NONE, a present value v is <<v>>.       *)
(***************************************************************************)
EXTENDS Integers, Sequences, FiniteSets, TLC

VARIABLES
    sessions,   \* app.py `sessions`: session id -> session record
    resp,       \* the response of the last API call (op, session id, status, body)
    calls,      \* the number of API calls handled so far
    fn,         \* pure-function harness: which function is applied
    arg,        \* pure-function harness: its input
    out         \* pure-function harness: NONE before the call, <<result>> after

vars == <<sessions, resp, calls, fn, arg, out>>

NONE == <<>>
Some(v) == <<v>>
IsNone(o) == o = NONE
Val(o) == o[1]

-----------------------------------------------------------------------------
(* The Python string library, on TLA+ strings.                             *)

UpperAlpha == "ABCDEFGHIJKLMNOPQRSTUVWXYZ"
LowerAlpha == "abcdefghijklmnopqrstuvwxyz"
Digits == "0123456789"

Char(s, i) == SubSeq(s, i, i)

\* sub in s
Contains(s, sub) ==
    \E i \in 1..(Len(s) - Len(sub) + 1) : SubSeq(s, i, i + Len(sub) - 1) = sub

\* any(w in s for w in words)
ContainsAny(s, words) == \E w \in words : Contains(s, w)

\* s.startswith(prefix)
StartsWith(s, prefix) ==
    Len(s) >= Len(prefix) /\ SubSeq(s, 1, Len(prefix)) = prefix

AlphaIndex(c, alphabet) ==
    IF \E i \in 1..Len(alphabet) : Char(alphabet, i) = c
    THEN CHOOSE i \in 1..Len(alphabet) : Char(alphabet, i) = c
    ELSE 0

LowerChar(c) ==
    IF AlphaIndex(c, UpperAlpha) = 0 THEN c
    ELSE Char(LowerAlpha, AlphaIndex(c, UpperAlpha))

UpperChar(c) ==
    IF AlphaIndex(c, LowerAlpha) = 0 THEN c
    ELSE Char(UpperAlpha, AlphaIndex(c, LowerAlpha))

\* s.lower(), by halves: the recursion is as deep as log2 of the length
RECURSIVE Lower(_)
Lower(s) ==
    IF Len(s) = 0 THEN ""
    ELSE IF Len(s) = 1 THEN LowerChar(s)
    ELSE LET h == Len(s) \div 2
         IN Lower(SubSeq(s, 1, h)) \o Lower(SubSeq(s, h + 1, Len(s)))

IsSpace(c) == c \in {" ", "\n", "\t", "\r"}

MinOf(S) == CHOOSE x \in S : \A y \in S : x <= y
MaxOf(S) == CHOOSE x \in S : \A y \in S : x >= y

\* s.strip()
Strip(s) ==
    LET solid == {i \in 1..Len(s) : ~IsSpace(Char(s, i))}
    IN IF solid = {} THEN "" ELSE SubSeq(s, MinOf(solid), MaxOf(solid))

\* s.split(): the whitespace-separated words of s, in order
Split(s) ==
    LET starts == {i \in 1..Len(s) :
                      ~IsSpace(Char(s, i)) /\ (i = 1 \/ IsSpace(Char(s, i - 1)))}
        ends == {i \in 1..Len(s) :
                      ~IsSpace(Char(s, i)) /\ (i = Len(s) \/ IsSpace(Char(s, i + 1)))}
        Nth(S, k) == CHOOSE x \in S : Cardinality({y \in S : y < x}) = k - 1
    IN [k \in 1..Cardinality(starts) |-> SubSeq(s, Nth(starts, k), Nth(ends, k))]

\* the positions at which sub occurs in s
Occurrences(s, sub) ==
    {i \in 1..(Len(s) - Len(sub) + 1) : SubSeq(s, i, i + Len(sub) - 1) = sub}

\* s.split(sep)[0] for a separator that s need not contain
BeforeSep(s, sep) ==
    IF Occurrences(s, sep) = {} THEN s
    ELSE SubSeq(s, 1, MinOf(Occurrences(s, sep)) - 1)

\* s.replace(old, new), old non-empty: left to right, non-overlapping; the
\* recursion is as deep as the number of occurrences
RECURSIVE Replace(_, _, _)
Replace(s, old, new) ==
    IF Occurrences(s, old) = {} THEN s
    ELSE LET i == MinOf(Occurrences(s, old))
         IN SubSeq(s, 1, i - 1) \o new
            \o Replace(SubSeq(s, i + Len(old), Len(s)), old, new)

\* re.sub(marker + '.*', '', s): every occurrence of marker is removed with
\* the rest of its line ('.' does not match a newline)
RECURSIVE ReSubLine(_, _)
ReSubLine(s, marker) ==
    IF Occurrences(s, marker) = {} THEN s
    ELSE LET i == MinOf(Occurrences(s, marker))
             rest == SubSeq(s, i + Len(marker), Len(s))
             tail == IF Occurrences(rest, "\n") = {} THEN ""
                     ELSE SubSeq(rest, MinOf(Occurrences(rest, "\n")), Len(rest))
         IN SubSeq(s, 1, i - 1) \o ReSubLine(tail, marker)

\* sep.join(seq)
RECURSIVE Join(_, _)
Join(seq, sep) ==
    IF Len(seq) = 0 THEN ""
    ELSE IF Len(seq) = 1 THEN seq[1]
    ELSE seq[1] \o sep \o Join(Tail(seq), sep)

\* str(list_of_strings): "['a', 'b']"
RECURSIVE Quoted(_)
Quoted(seq) ==
    IF Len(seq) = 0 THEN <<>> ELSE <<"'" \o seq[1] \o "'">> \o Quoted(Tail(seq))

StrOfList(seq) == "[" \o Join(Quoted(seq), ", ") \o "]"

\* str(n) for n >= 0
RECURSIVE IntStr(_)
IntStr(n) ==
    IF n < 10 THEN Char(Digits, n + 1)
    ELSE IntStr(n \div 10) \o Char(Digits, (n % 10) + 1)

\* f"{n:02d}" for n >= 0
Pad2(n) == IF n < 10 THEN "0" \o IntStr(n) ELSE IntStr(n)

Min(a, b) == IF a < b THEN a ELSE b
Max(a, b) == IF a > b THEN a ELSE b

-----------------------------------------------------------------------------
(* Phase 1: phases/prompt_refiner.py                                       *)

IssueTiming == "Contains vague timing words that need specification"
IssueEmotion == "Emotional descriptors are too generic - needs specificity"
IssueTechnical == "Missing technical specifications (format, resolution, aspect ratio)"
IssueDuration == "No duration or length constraints specified"
IssuePlatform == "Target platform not specified (affects format and style decisions)"
IssueAction == "Action verbs are vague - needs specific editing actions"
IssueEmpty == "Empty prompt provided"

CondSeq(cond, x) == IF cond THEN <<x>> ELSE <<>>

\* analyze_prompt(prompt)['issues_detected']
issues_detected(prompt) ==
    LET p == Lower(prompt) IN
       CondSeq(ContainsAny(p, {"soon", "later", "eventually", "sometime", "at some point"}),
               IssueTiming)
    \o CondSeq(ContainsAny(p, {"good", "nice", "bad", "interesting", "emotional"}),
               IssueEmotion)
    \o CondSeq(Contains(p, "video")
                 /\ ~ContainsAny(p, {"format", "resolution", "aspect ratio"}),
               IssueTechnical)
    \o CondSeq(~ContainsAny(p, {"minute", "second", "hour", "length", "duration",
                                "short", "long"}),
               IssueDuration)
    \o CondSeq(~ContainsAny(p, {"youtube", "tiktok", "instagram", "facebook",
                                "twitter", "film", "cinema", "tv"}),
               IssuePlatform)
    \o CondSeq(ContainsAny(p, {"make", "do", "create something", "fix", "improve"}),
               IssueAction)

\* _calculate_complexity(prompt)
_calculate_complexity(prompt) ==
    LET terms == {"transition", "color grade", "sound design", "b-roll", "montage"}
        hits == Cardinality({t \in terms : Contains(Lower(prompt), t)})
    IN Min((Len(Split(prompt)) \div 10) + hits, 10)

\* analyze_prompt(prompt)
analyze_prompt(prompt) ==
    [issues_detected |-> issues_detected(prompt),
     original_length |-> Len(prompt),
     complexity_score |-> _calculate_complexity(prompt)]

\* improved += text, under a condition
Added(cond, text) == IF cond THEN text ELSE ""

\* the two replacements of vague action verbs
ReplaceVagueActions(s) ==
    Replace(Replace(s, "make a video", "edit raw footage into a cinematic sequence"),
            "create something", "produce a narrative-driven edit")

\* improve_prompt(prompt, analysis): [improved, improvements]
improve_prompt(prompt, analysis) ==
    LET shown == Lower(StrOfList(analysis.issues_detected))
        s0 == Strip(prompt)
        s1 == IF ~ContainsAny(s0, {"Goal:", "Objective:", "I want to"})
              THEN "Goal: " \o UpperChar(Char(s0, 1)) \o SubSeq(s0, 2, Len(s0))
              ELSE s0
        t1 == Contains(shown, "vague timing")
        t2 == Contains(shown, "emotional descriptors")
        t3 == Contains(shown, "technical specifications")
        t4 == Contains(shown, "duration")
        t5 == Contains(shown, "platform")
        t6 == Contains(shown, "vague action")
        t7 == analysis.complexity_score > 3
        s6 == s1
              \o Added(t1, "\n- Timing: Specific timestamps or sequence to be defined")
              \o Added(t2, "\n- Emotional tone: [Specify exact emotion - e.g., melancholic, triumphant, suspenseful]")
              \o Added(t3, "\n- Technical: [Format: 16:9/9:16/1:1], [Resolution: 1080p/4K], [Frame rate if relevant]")
              \o Added(t4, "\n- Duration: [Target length - e.g., 30 seconds, 2 minutes, feature length]")
              \o Added(t5, "\n- Platform: [YouTube/TikTok/Instagram/Film/etc.] - affects pacing and format")
        s7 == IF t6 THEN ReplaceVagueActions(s6) ELSE s6
    IN [improved |->
              s7 \o Added(t7, "\n- Quality: Professional cinematic standards with attention to pacing, audio sync, and visual flow"),
        improvements |->
              CondSeq(t1, "Added timing specification placeholder")
           \o CondSeq(t2, "Requested specific emotional tone clarification")
           \o CondSeq(t3, "Added technical specification section")
           \o CondSeq(t4, "Added duration constraint placeholder")
           \o CondSeq(t5, "Added platform specification for format decisions")
           \o CondSeq(t6, "Replaced vague action verbs with specific editing terminology")
           \o CondSeq(t7, "Added quality standards specification")]

\* the decision of refine: "revise" when more than two issues were detected
RevisionThreshold == 2

\* the decision taken from two issues on
needs_revision_from_two(issues) == Len(issues) >= RevisionThreshold
needs_revision(issues) == Len(issues) > RevisionThreshold

\* the early return of refine for an empty or whitespace-only prompt
EmptyRefinement ==
    [original_prompt |-> "",
     improved_prompt |-> "",
     issues_detected |-> <<IssueEmpty>>,
     improvements_made |-> <<>>,
     user_action_required |-> "revise"]

\* PromptRefiner.refine(original_prompt)
refine(original_prompt) ==
    IF original_prompt = "" \/ Strip(original_prompt) = ""
    THEN EmptyRefinement
    ELSE LET analysis == analyze_prompt(original_prompt)
             imp == improve_prompt(original_prompt, analysis)
         IN [original_prompt |-> original_prompt,
             improved_prompt |-> imp.improved,
             issues_detected |-> analysis.issues_detected,
             improvements_made |-> imp.improvements,
             user_action_required |->
                 IF needs_revision(analysis.issues_detected) THEN "revise" ELSE "accept"]

\* the outcome of a call that may raise: the exception's name, or the value
Ok(v) == [raised |-> "", value |-> <<v>>]
Raise(e) == [raised |-> e, value |-> NONE]
Raised(r) == r.raised # ""

\* the two re.sub calls of the "too technical" branch
RemoveTechnicalLines(s) == ReSubLine(ReSubLine(s, "\n- Technical:"), "\n- Duration:")

\* the "more detail" branch: a line is added when its label is not in s
WithLine(s, label, line) == s \o Added(~Contains(s, label), line)

\* PromptRefiner.refine_with_feedback(original_prompt, previous_improved, feedback);
\* the two prompts are optional values (session['data'].get(...))
refine_with_feedback(original_prompt, previous_improved, feedback) ==
    LET feedback_lower == Lower(feedback)
        shorten == ContainsAny(feedback_lower, {"too long", "verbose"})
        simplify == ContainsAny(feedback_lower, {"too technical", "simple"})
        detail == ContainsAny(feedback_lower, {"more detail", "elaborate"})
    IN IF IsNone(previous_improved)
       THEN \* None.split / re.sub(None) / 'Style:' in None / None.lower()
            IF shorten THEN Raise("AttributeError")
            ELSE IF simplify \/ detail THEN Raise("TypeError")
            ELSE Raise("AttributeError")
       ELSE LET a0 == Val(previous_improved)
                a1 == IF shorten THEN BeforeSep(a0, "\n") ELSE a0
                a2 == IF simplify THEN RemoveTechnicalLines(a1) ELSE a1
                a4 == IF detail
                      THEN WithLine(WithLine(a2, "Style:",
                                             "\n- Style: [Cinematic approach - documentary, narrative, experimental, etc.]"),
                                    "Audio:",
                                    "\n- Audio: [Music style, voice-over needs, sound design requirements]")
                      ELSE a2
                new_analysis == analyze_prompt(a4)
            IN Ok([original_prompt |-> original_prompt,
                   improved_prompt |-> a4,
                   issues_detected |-> new_analysis.issues_detected,
                   improvements_made |-> <<"Adjusted based on user feedback">>
                                         \o improve_prompt(a4, new_analysis).improvements,
                   user_action_required |-> "accept",
                   feedback_incorporated |-> feedback])

\* PromptRefinementOutput, through validate_json_schema: the validator
\* improved_not_empty and the Literal of user_action_required
ValidPromptRefinement(r) ==
    /\ r.improved_prompt # ""
    /\ Strip(r.improved_prompt) # ""
    /\ r.user_action_required \in {"accept", "revise"}

-----------------------------------------------------------------------------
(* Phase 2: phases/intelligent_questioning.py                              *)

\* A Python dict with string keys is a function on the set of its keys.
EmptyDict == [k \in {} |-> ""]
Has(d, k) == k \in DOMAIN d
Get(d, k, default) == IF k \in DOMAIN d THEN d[k] ELSE default
\* the dictionary made anew for the one key
PutFresh(d, k, v) == [x \in {k} |-> v]
Put(d, k, v) == [x \in (DOMAIN d) \cup {k} |-> IF x = k THEN v ELSE d[x]]

\* question_templates: id, category, type, required and condition of every
\* template (the question text, options and help text are carried unchanged
\* into the Question and play no part in any decision)
Template(id, category, type, required, condition) ==
    [id |-> id, category |-> category, type |-> type, required |-> required,
     condition |-> condition]

TemplateKeys ==
    <<"format", "platform", "duration", "rhythm", "tone", "music", "voice_over",
      "voice_language", "voice_gender", "voice_age", "subtitles", "subtitle_style",
      "ending", "color_grade", "source_material">>

question_templates ==
    [format |-> Template("video_format", "format", "single_choice", TRUE, NONE),
     platform |-> Template("target_platform", "platform", "single_choice", TRUE, NONE),
     duration |-> Template("target_duration", "duration", "single_choice", TRUE, NONE),
     rhythm |-> Template("editing_rhythm", "rhythm", "single_choice", TRUE, NONE),
     tone |-> Template("emotional_tone", "tone", "single_choice", TRUE, NONE),
     music |-> Template("music_style", "music", "single_choice", FALSE, NONE),
     voice_over |-> Template("voice_over_needed", "voice_over", "single_choice", FALSE, NONE),
     voice_language |-> Template("voice_language", "voice_over", "single_choice", FALSE,
                                 Some("voice_over_needed:Yes")),
     voice_gender |-> Template("voice_gender", "voice_over", "single_choice", FALSE,
                               Some("voice_over_needed:Yes")),
     voice_age |-> Template("voice_age", "voice_over", "single_choice", FALSE,
                            Some("voice_over_needed:Yes")),
     subtitles |-> Template("subtitles_enabled", "subtitles", "single_choice", FALSE, NONE),
     subtitle_style |-> Template("subtitle_style", "subtitles", "single_choice", FALSE,
                                 Some("subtitles_enabled:Yes")),
     ending |-> Template("ending_style", "ending", "single_choice", FALSE, NONE),
     color_grade |-> Template("color_grade", "style", "single_choice", FALSE, NONE),
     source_material |-> Template("source_material", "technical", "multiple_choice", TRUE, NONE)]

\* detect_missing_info(prompt, existing_answers): the missing categories, in
\* the order of the checks
detect_missing_info(prompt, existing_answers) ==
    LET p == Lower(prompt)
        Missing(words, key, category) ==
            CondSeq(~ContainsAny(p, words) /\ ~Has(existing_answers, key), category)
    IN    Missing({"16:9", "9:16", "1:1", "landscape", "portrait", "square"},
                  "video_format", "format")
       \o Missing({"youtube", "tiktok", "instagram", "facebook", "film", "cinema", "tv"},
                  "target_platform", "platform")
       \o Missing({"minute", "second", "hour", "min", "sec", "long", "short"},
                  "target_duration", "duration")
       \o Missing({"slow", "fast", "quick", "paced", "rhythm", "dynamic", "calm"},
                  "editing_rhythm", "rhythm")
       \o Missing({"emotional", "happy", "sad", "exciting", "dramatic", "funny", "serious"},
                  "emotional_tone", "tone")
       \o Missing({"music", "song", "soundtrack", "audio"}, "music_style", "music")
       \o Missing({"voice", "narration", "narrator", "speak", "tell"},
                  "voice_over_needed", "voice_over")
       \o Missing({"subtitle", "caption", "text on screen"}, "subtitles_enabled", "subtitles")
       \o Missing({"end", "finish", "conclude", "close", "wrap up"}, "ending_style", "ending")
       \o CondSeq(~Has(existing_answers, "source_material"), "source_material")

\* the order of Python's str comparison on the characters of question ids
IdAlphabet == "_abcdefghijklmnopqrstuvwxyz"

RECURSIVE StrLess(_, _)
StrLess(a, b) ==
    IF Len(b) = 0 THEN FALSE
    ELSE IF Len(a) = 0 THEN TRUE
    ELSE IF Char(a, 1) = Char(b, 1)
         THEN StrLess(SubSeq(a, 2, Len(a)), SubSeq(b, 2, Len(b)))
         ELSE AlphaIndex(Char(a, 1), IdAlphabet) < AlphaIndex(Char(b, 1), IdAlphabet)

\* the sort key (not q.required, q.id): False sorts before True
KeyLess(q1, q2) ==
    \/ q1.required /\ ~q2.required
    \/ q1.required = q2.required /\ StrLess(q1.id, q2.id)

\* the questions left in the order of the checks
SortQuestionsSkipped(qs) == qs
\* list.sort(key=...): stable, so elements of equal key keep their order
SortQuestions(qs) ==
    LET n == Len(qs)
        Before(i, j) == KeyLess(qs[i], qs[j]) \/ (~KeyLess(qs[j], qs[i]) /\ i < j)
        Rank(i) == Cardinality({j \in 1..n : Before(j, i)}) + 1
    IN [k \in 1..n |-> qs[CHOOSE i \in 1..n : Rank(i) = k]]

\* the Question built from a template (the condition is not a Question field)
QuestionOf(t) ==
    [id |-> t.id, category |-> t.category, type |-> t.type, required |-> t.required]

\* the body of the loop of generate_questions for one missing category
RECURSIVE CollectQuestions(_, _)
CollectQuestions(categories, existing_answers) ==
    IF Len(categories) = 0 THEN <<>>
    ELSE LET category == Head(categories)
             template == question_templates[category]
             rest == CollectQuestions(Tail(categories), existing_answers)
         IN IF ~(\E i \in DOMAIN TemplateKeys : TemplateKeys[i] = category) THEN rest
            ELSE IF ~IsNone(template.condition)
                    /\ LET condition_key == BeforeSep(Val(template.condition), ":")
                           condition_value ==
                               SubSeq(Val(template.condition), Len(condition_key) + 2,
                                      Len(Val(template.condition)))
                       IN ~Contains(Get(existing_answers, condition_key, ""), condition_value)
                 THEN rest
                 ELSE <<QuestionOf(template)>> \o rest

\* IntelligentQuestioning.generate_questions(prompt, existing_answers); the
\* prompt is an optional value: None.lower() raises in detect_missing_info
generate_questions(prompt, existing_answers) ==
    IF IsNone(prompt) THEN Raise("AttributeError")
    ELSE Ok(SortQuestions(CollectQuestions(detect_missing_info(Val(prompt), existing_answers),
                                           existing_answers)))

\* the threshold of check_completeness, 0.8, in tenths
CompletenessTenths == 8

\* every required question must be answered
check_completeness_all(questions, answers) ==
    \A i \in DOMAIN questions : questions[i].required => Has(answers, questions[i].id)

\* IntelligentQuestioning.check_completeness(questions, answers);
\* answered >= n * 0.8 is decided on integers: n * 0.8 is an integer only for
\* n a multiple of 5, where the float product is exact
check_completeness(questions, answers) ==
    LET required_questions == {i \in DOMAIN questions : questions[i].required}
        answered_required ==
            Cardinality({i \in required_questions : Has(answers, questions[i].id)})
    IN IF required_questions = {} THEN TRUE
       ELSE 10 * answered_required >= CompletenessTenths * Cardinality(required_questions)

-----------------------------------------------------------------------------
(* Phase 3: phases/narrative_reasoning.py                                  *)
(* Intensities are percentages: 0.3 is 30.                                 *)

narrative_archetypes ==
    <<[arc |-> "hero_journey", description |-> "Protagonist overcomes challenges to achieve goal"],
      [arc |-> "transformation", description |-> "Character undergoes significant internal change"],
      [arc |-> "love_story", description |-> "Relationship develops through obstacles"],
      [arc |-> "tragedy", description |-> "Downward arc ending in loss or failure"],
      [arc |-> "comedy", description |-> "Humorous situations leading to happy resolution"],
      [arc |-> "mystery", description |-> "Unknown revealed through investigation"],
      [arc |-> "documentary", description |-> "Informational with emotional human element"],
      [arc |-> "montage", description |-> "Collection of moments showing progression"],
      [arc |-> "interview", description |-> "Personal story told through dialogue"],
      [arc |-> "event_coverage", description |-> "Chronological documentation with highlights"]>>

\* the score of one archetype from the prompt: its name (+3 with the
\* underscores as spaces, +3 as written) and each word of its description
\* longer than 4 characters (+1)
PromptScore(a, prompt_lower) ==
    LET keywords == Split(Lower(a.description))
    IN   (IF Contains(prompt_lower, Replace(a.arc, "_", " ")) THEN 3 ELSE 0)
       + (IF Contains(prompt_lower, a.arc) THEN 3 ELSE 0)
       + Cardinality({i \in DOMAIN keywords :
                         Contains(prompt_lower, keywords[i]) /\ Len(keywords[i]) > 4})

\* the bonus an archetype gets from the answers (tone and source material)
AnswerBonus(arc, answers) ==
    LET tone == Lower(Get(answers, "emotional_tone", ""))
        source == Get(answers, "source_material", "")
    IN   (IF arc = "tragedy" /\ ContainsAny(tone, {"tragedy", "sad", "melancholic"})
          THEN 2 ELSE 0)
       + (IF arc = "hero_journey" /\ ContainsAny(tone, {"inspirational", "motivational"})
          THEN 2 ELSE 0)
       + (IF arc = "love_story" /\ ContainsAny(tone, {"romantic", "love"}) THEN 2 ELSE 0)
       + (IF arc = "interview" /\ Contains(source, "interview footage") THEN 3 ELSE 0)
       + (IF arc = "documentary" /\ Contains(source, "b-roll") /\ Contains(source, "interview")
          THEN 2 ELSE 0)

arc_scores(prompt, answers) ==
    LET prompt_lower == Lower(prompt)
    IN [i \in DOMAIN narrative_archetypes |->
           PromptScore(narrative_archetypes[i], prompt_lower)
           + AnswerBonus(narrative_archetypes[i].arc, answers)]

\* max(arc_scores, key=arc_scores.get): the first archetype, in the order of
\* the table, whose score no other exceeds
BestArcIndex(scores) ==
    LET table == {<<i, scores[i]>> : i \in DOMAIN scores}
        best == CHOOSE b \in table :
                    \A o \in table : o[2] <= b[2] /\ (o[1] < b[1] => o[2] < b[2])
    IN best

\* identify_narrative_arc(prompt, answers)
identify_narrative_arc(prompt, answers) ==
    LET best == BestArcIndex(arc_scores(prompt, answers))
        prompt_lower == Lower(prompt)
    IN IF best[2] > 0 THEN narrative_archetypes[best[1]].arc
       ELSE IF Contains(prompt_lower, "interview") THEN "interview"
       ELSE IF ContainsAny(prompt_lower, {"wedding", "event", "vacation", "trip"})
            THEN "montage"
       ELSE "documentary"

Beat(beat, emotion, intensity, pacing) ==
    [beat |-> beat, emotion |-> emotion, intensity |-> intensity, pacing |-> pacing]

\* map_emotional_progression(prompt, answers, transcription, visual_analysis)
map_emotional_progression(answers) ==
    LET tone == Get(answers, "emotional_tone", "neutral")
        rhythm == Get(answers, "editing_rhythm", "medium")
        ending == Lower(Get(answers, "ending_style", ""))
        progression ==
            IF Contains(rhythm, "slow")
            THEN <<Beat("hook", "curiosity", 30, "slow"),
                   Beat("setup", tone, 40, "slow"),
                   Beat("rising_action", tone, 50, "medium"),
                   Beat("climax", "intense_" \o tone, 70, "slow"),
                   Beat("resolution", "peaceful", 30, "very_slow")>>
            ELSE IF Contains(rhythm, "fast")
            THEN <<Beat("hook", "excitement", 70, "fast"),
                   Beat("setup", tone, 50, "fast"),
                   Beat("rising_action", "building_" \o tone, 80, "very_fast"),
                   Beat("climax", "peak_" \o tone, 100, "fast"),
                   Beat("resolution", "satisfaction", 60, "medium")>>
            ELSE <<Beat("hook", "interest", 50, "medium"),
                   Beat("setup", tone, 40, "medium"),
                   Beat("rising_action", "developing_" \o tone, 60, "medium"),
                   Beat("climax", "intense_" \o tone, 90, "medium_fast"),
                   Beat("resolution", "fulfillment", 50, "slow")>>
        last == Len(progression)
    IN IF Contains(ending, "open")
       THEN [progression EXCEPT ![last].emotion = "contemplation", ![last].intensity = 40]
       ELSE IF Contains(ending, "cliffhanger")
       THEN [progression EXCEPT ![last].emotion = "suspense", ![last].intensity = 80]
       ELSE progression

\* analyze_scene_contrasts(visual_analysis, emotional_progression); the
\* visual analysis is None or a record with a list of scenes, each scene a
\* record of lighting, color_palette, movement and scale
analyze_scene_contrasts(visual_analysis, emotional_progression) ==
    IF IsNone(visual_analysis) THEN <<>>
    ELSE LET scenes == Val(visual_analysis).scenes
             n == Len(emotional_progression)
             Types(i) ==
                    CondSeq(scenes[i].lighting # scenes[i + 1].lighting, "lighting")
                 \o CondSeq(scenes[i].color_palette # scenes[i + 1].color_palette, "color")
                 \o CondSeq(scenes[i].movement # scenes[i + 1].movement, "movement")
                 \o CondSeq(scenes[i].scale # scenes[i + 1].scale, "scale")
             Contrast(i) ==
                 [between_scenes |-> <<i - 1, i>>,
                  contrast_types |-> Types(i),
                  emotional_shift |->
                      [from |-> emotional_progression[Min(i, n)].emotion,
                       to |-> emotional_progression[Min(i + 1, n)].emotion],
                  recommended_transition |->
                      IF \E k \in DOMAIN Types(i) : Types(i)[k] = "movement"
                      THEN "cut" ELSE "fade"]
             flagged == {i \in 1..(Len(scenes) - 1) : Types(i) # <<>>}
             Nth(k) == CHOOSE i \in flagged : Cardinality({j \in flagged : j < i}) = k - 1
         IN [k \in 1..Cardinality(flagged) |-> Contrast(Nth(k))]

\* the duration table of calculate_pacing
PacingDuration(duration_answer) ==
    IF Contains(duration_answer, "15-30") THEN 30
    ELSE IF Contains(duration_answer, "30-60") THEN 60
    ELSE IF Contains(duration_answer, "1-3") THEN 180
    ELSE IF Contains(duration_answer, "3-10") THEN 600
    ELSE IF Contains(duration_answer, "10-30") THEN 1800
    ELSE 180

\* the rhythm table of calculate_pacing: {...}.get(rhythm, 15), an exact match
PacingCuts(rhythm) ==
    IF rhythm = "slow" THEN 8
    ELSE IF rhythm = "medium" THEN 15
    ELSE IF rhythm = "fast" THEN 30
    ELSE 15

\* _generate_rhythm_pattern(emotional_progression, base_cuts_per_minute);
\* int(c * 1.5) and int(c * 0.6) are exact on integers for c in {8, 15, 25, 30}
_generate_rhythm_pattern(emotional_progression, base_cuts_per_minute) ==
    [i \in DOMAIN emotional_progression |->
        LET beat == emotional_progression[i]
        IN [beat |-> beat.beat,
            cuts_per_minute |->
                IF beat.intensity > 80 THEN (base_cuts_per_minute * 3) \div 2
                ELSE IF beat.intensity < 40 THEN (base_cuts_per_minute * 6) \div 10
                ELSE base_cuts_per_minute,
            pacing |-> beat.pacing,
            intensity |-> beat.intensity]]

\* calculate_pacing(answers, emotional_progression)
calculate_pacing(answers, emotional_progression) ==
    LET duration_seconds == PacingDuration(Get(answers, "target_duration", ""))
        base == PacingCuts(Get(answers, "editing_rhythm", "medium"))
        platform == Lower(Get(answers, "target_platform", ""))
        cuts_per_minute ==
            IF ContainsAny(platform, {"tiktok", "reels"}) THEN Max(base, 25) ELSE base
    IN [total_duration_seconds |-> duration_seconds,
        cuts_per_minute |-> cuts_per_minute,
        estimated_total_cuts |-> (duration_seconds * cuts_per_minute) \div 60,
        average_shot_length_seconds |-> 60 \div cuts_per_minute,
        rhythm_pattern |-> _generate_rhythm_pattern(emotional_progression, cuts_per_minute)]

\* detect_symbolism(prompt, visual_analysis): None or the joined notes
detect_symbolism(prompt) ==
    LET p == Lower(prompt)
        symbols ==
              CondSeq(ContainsAny(p, {"journey", "travel", "road", "path"}),
                      "Journey/Path = Life's progression or personal growth")
           \o CondSeq(ContainsAny(p, {"light", "sun", "bright", "dark", "shadow"}),
                      "Light/Dark = Hope/despair, knowledge/ignorance, good/evil")
           \o CondSeq(ContainsAny(p, {"water", "ocean", "river", "rain"}),
                      "Water = Emotions, purification, life flow")
           \o CondSeq(ContainsAny(p, {"mountain", "climb", "peak", "height"}),
                      "Mountains/Height = Challenges, achievement, perspective")
           \o CondSeq(ContainsAny(p, {"door", "gate", "entrance", "threshold"}),
                      "Doors/Gates = New opportunities, transitions, choices")
           \o CondSeq(ContainsAny(p, {"mirror", "reflection", "glass"}),
                      "Mirrors = Self-reflection, truth, identity")
    IN IF symbols # <<>> THEN Some(Join(symbols, "; ")) ELSE NONE

\* NarrativeReasoning.analyze(prompt, answers, transcription, visual_analysis);
\* the prompt is an optional value: None.lower() raises in identify_narrative_arc
analyze(prompt, answers, visual_analysis) ==
    IF IsNone(prompt) THEN Raise("AttributeError")
    ELSE LET narrative_arc == identify_narrative_arc(Val(prompt), answers)
             emotional_progression == map_emotional_progression(answers)
             scene_contrasts == analyze_scene_contrasts(visual_analysis, emotional_progression)
             pacing == calculate_pacing(answers, emotional_progression)
         IN Ok([narrative_arc |-> narrative_arc,
                emotional_progression |-> emotional_progression,
                dominant_tone |-> Get(answers, "emotional_tone", "neutral"),
                pacing_recommendation |-> pacing,
                scene_contrasts |-> scene_contrasts,
                symbolism_notes |-> detect_symbolism(Val(prompt)),
                _internal_analysis |->
                    [arc_confidence |->
                         IF narrative_arc # "documentary" THEN "high" ELSE "medium",
                     emotional_beats_count |-> Len(emotional_progression),
                     contrast_opportunities |-> Len(scene_contrasts),
                     pacing_notes |-> "Base rhythm: " \o IntStr(pacing.cuts_per_minute)
                                      \o " cuts/min"]])

-----------------------------------------------------------------------------
(* Phase 4: phases/scene_planning.py                                       *)

\* _seconds_to_timestamp(seconds): HH:MM:SS from one hour on, else MM:SS
_seconds_to_timestamp(seconds) ==
    IF seconds >= 3600
    THEN Pad2(seconds \div 3600) \o ":" \o Pad2((seconds % 3600) \div 60)
         \o ":" \o Pad2(seconds % 60)
    ELSE Pad2(seconds \div 60) \o ":" \o Pad2(seconds % 60)

\* _parse_duration(duration_answer)
_parse_duration(duration_answer) ==
    IF Contains(duration_answer, "15-30") THEN 25
    ELSE IF Contains(duration_answer, "30-60") THEN 45
    ELSE IF Contains(duration_answer, "1-3") THEN 120
    ELSE IF Contains(duration_answer, "3-10") THEN 360
    ELSE IF Contains(duration_answer, "10-30") THEN 1200
    ELSE 180

\* _determine_format(platform)
_determine_format(platform) ==
    LET platform_lower == Lower(platform)
    IN IF ContainsAny(platform_lower, {"tiktok", "reels", "stories"}) THEN "9:16"
       ELSE IF Contains(platform_lower, "instagram") /\ Contains(platform_lower, "feed")
            THEN "1:1"
       ELSE "16:9"

\* _generate_voice_over_config(answers)
_generate_voice_over_config(answers) ==
    LET voice_needed == Get(answers, "voice_over_needed", "No voice-over needed")
        language == Lower(Get(answers, "voice_language", "English"))
    IN IF Contains(voice_needed, "Yes")
       THEN IF Contains(Lower(voice_needed), "single")
            THEN [enabled |-> TRUE,
                  voices |-> <<[gender |-> Replace(Lower(Get(answers, "voice_gender",
                                                             "No preference")), " ", "_"),
                                language |-> language,
                                age |-> Replace(Replace(Replace(
                                            Lower(Get(answers, "voice_age", "Adult")),
                                            "(", ""), ")", ""), "-", "_"),
                                text |-> ""]>>]
            ELSE [enabled |-> TRUE,
                  voices |-> <<[gender |-> "male", language |-> language,
                                age |-> "adult", text |-> ""],
                               [gender |-> "female", language |-> language,
                                age |-> "adult", text |-> ""]>>]
       ELSE [enabled |-> FALSE, voices |-> <<>>]

\* _generate_subtitle_config(answers)
_generate_subtitle_config(answers) ==
    LET subs == Get(answers, "subtitles_enabled", "No subtitles needed")
    IN IF Contains(subs, "Yes")
       THEN [enabled |-> TRUE,
             type |-> Some(IF Contains(Lower(subs), "burned") THEN "burned" ELSE "srt"),
             style |-> Some(Replace(Lower(Get(answers, "subtitle_style", "Professional")),
                                    " ", "_"))]
       ELSE [enabled |-> FALSE, type |-> NONE, style |-> NONE]

\* the rhythm factor of _calculate_scene_durations, in tenths: 1.2, 0.8 or 1
RhythmTenths(rhythm) ==
    IF Contains(Lower(rhythm), "slow") THEN 12
    ELSE IF Contains(Lower(rhythm), "fast") THEN 8
    ELSE 10

\* int(base_duration * 1.2) and int(base_duration * 0.8): the float product
\* truncates to the integer quotient for every base duration up to 5000
ScaledDuration(base_duration, rhythm) == (base_duration * RhythmTenths(rhythm)) \div 10

\* the last scene left uncorrected
LastDurationUncorrected(total_duration, num_scenes, scaled) == scaled

\* the correction of the last scene: durations[-1] += total - sum(durations)
LastDuration(total_duration, num_scenes, scaled) ==
    scaled + (total_duration - num_scenes * scaled)

\* _calculate_scene_durations(total_duration, num_scenes, rhythm)
_calculate_scene_durations(total_duration, num_scenes, rhythm) ==
    LET base_duration == total_duration \div num_scenes
        scaled == ScaledDuration(base_duration, rhythm)
    IN [i \in 1..num_scenes |->
           IF i = num_scenes THEN LastDuration(total_duration, num_scenes, scaled)
           ELSE scaled]

\* the stage list of _generate_scenes: the five stages, with a rising_action
\* inserted at index 2 while there are more scenes than stages
RECURSIVE scene_types(_)
scene_types(num_scenes) ==
    IF num_scenes <= 5 THEN <<"hook", "setup", "rising_action", "climax", "resolution">>
    ELSE LET shorter == scene_types(num_scenes - 1)
         IN SubSeq(shorter, 1, 2) \o <<"rising_action">> \o SubSeq(shorter, 3, Len(shorter))

\* scene_type.replace('_', ' ').title()
StageTitle(scene_type) ==
    LET spaced == Replace(scene_type, "_", " ")
        Cap(i) == IF i = 1 \/ Char(spaced, i - 1) = " "
                  THEN UpperChar(Char(spaced, i)) ELSE Char(spaced, i)
    IN Join([i \in 1..Len(spaced) |-> Cap(i)], "")

\* the scene built by one iteration of the loop of _generate_scenes; i counts
\* from 0 as in the code
SceneAt(i, duration, current_time, num_scenes, answers, emotional_progression, transcription) ==
    LET rhythm == Get(answers, "editing_rhythm", "Medium")
        tone == Get(answers, "emotional_tone", "neutral")
        ending == Lower(Get(answers, "ending_style", "Closed ending"))
        voice == Get(answers, "voice_over_needed", "")
        types == scene_types(num_scenes)
        scene_type == IF i < Len(types) THEN types[i + 1] ELSE "development"
        emotional_beat ==
            IF i < Len(emotional_progression)
            THEN [emotion |-> emotional_progression[i + 1].emotion,
                  intensity |-> emotional_progression[i + 1].intensity]
            ELSE [emotion |-> Lower(tone), intensity |-> 50]
        visual ==
            IF scene_type = "hook"
            THEN "Impactful opening shot that establishes tone and grabs attention"
            ELSE IF scene_type = "setup"
            THEN "Establishing context and introducing key elements"
            ELSE IF scene_type = "rising_action"
            THEN "Building tension with " \o emotional_beat.emotion \o " energy"
            ELSE IF scene_type = "climax"
            THEN "Peak emotional moment: " \o emotional_beat.emotion \o " at maximum intensity"
            ELSE IF Contains(ending, "open")
            THEN "Thought-provoking final image that lingers"
            ELSE IF Contains(ending, "cliffhanger")
            THEN "Suspenseful final moment that hints at continuation"
            ELSE "Satisfying conclusion that resolves the narrative"
        audio ==
            IF scene_type = "hook"
            THEN (IF ~Contains(voice, "voice") THEN "music" ELSE "voice_over")
            ELSE IF scene_type = "setup"
            THEN (IF transcription THEN "dialogue" ELSE "ambient")
            ELSE IF scene_type = "rising_action"
            THEN (IF emotional_beat.intensity > 60 THEN "music" ELSE "dialogue")
            ELSE IF scene_type = "climax" THEN "music"
            ELSE (IF Contains(ending, "open") THEN "ambient" ELSE "music")
        transition ==
            IF scene_type = "hook" THEN "cut"
            ELSE IF scene_type = "setup"
            THEN (IF Contains(Lower(rhythm), "slow") THEN "fade" ELSE "cut")
            ELSE IF scene_type = "rising_action"
            THEN (IF i < num_scenes - 1 THEN "match_cut" ELSE "cut")
            ELSE "fade"
        voice_text ==
            IF ~StartsWith(voice, "Yes") THEN ""
            ELSE IF scene_type = "hook" THEN "[Opening hook - introduce the journey]"
            ELSE IF scene_type = "setup" THEN "[Context setting - establish the story]"
            ELSE IF scene_type = "climax"
            THEN "[Emotional peak - " \o emotional_beat.emotion \o "]"
            ELSE IF scene_type = "resolution"
            THEN "[Closing reflection - leave the audience with the message]"
            ELSE ""
    IN [scene_id |-> i + 1,
        goal |-> StageTitle(scene_type) \o ": " \o emotional_beat.emotion \o " ("
                 \o IntStr(emotional_beat.intensity) \o "% intensity)",
        start |-> _seconds_to_timestamp(current_time),
        end |-> _seconds_to_timestamp(current_time + duration),
        visual |-> visual,
        audio |-> audio,
        voice_over_text |-> IF voice_text # "" THEN Some(voice_text) ELSE NONE,
        subtitle_usage |-> Contains(Get(answers, "subtitles_enabled", ""), "Yes"),
        transition |-> transition]

\* current_time at the start of iteration i (from 0): the durations before it
RECURSIVE TimeBefore(_, _)
TimeBefore(scene_durations, i) ==
    IF i = 0 THEN 0 ELSE TimeBefore(scene_durations, i - 1) + scene_durations[i]

\* _generate_scenes(inputs, total_duration, scene_durations)
_generate_scenes(answers, emotional_progression, transcription, scene_durations) ==
    [k \in 1..Len(scene_durations) |->
        SceneAt(k - 1, scene_durations[k], TimeBefore(scene_durations, k - 1),
                Len(scene_durations), answers, emotional_progression, transcription)]

\* _generate_title(solicitud, tone): whole words of the request, then the tone
_generate_title(solicitud, tone) ==
    LET split == Split(Lower(solicitud))
        words == {split[i] : i \in DOMAIN split}
        tone_titles ==
            <<<<"joyful", "Radiance">>, <<"melancholic", "Echoes of Yesterday">>,
              <<"suspenseful", "The Edge">>, <<"romantic", "Two Hearts">>,
              <<"inspirational", "Rise">>, <<"nostalgic", "Time Remembered">>,
              <<"energetic", "Momentum">>, <<"calm", "Serenity">>,
              <<"dramatic", "The Turning Point">>>>
        hits == {i \in DOMAIN tone_titles : Contains(Lower(tone), tone_titles[i][1])}
    IN IF "interview" \in words THEN "Voices: A Personal Story"
       ELSE IF "wedding" \in words THEN "Forever Begins"
       ELSE IF words \cap {"travel", "vacation", "trip"} # {}
            THEN "Wanderlust: A Journey Captured"
       ELSE IF "documentary" \in words THEN "The Untold Story"
       ELSE IF words \cap {"product", "commercial"} # {} THEN "Innovation Revealed"
       ELSE IF "event" \in words THEN "The Moment"
       ELSE IF hits # {} THEN tone_titles[MinOf(hits)][2]
       ELSE "The Edit"

\* _generate_theme(solicitud, narrative)
_generate_theme(narrative) ==
    LET arc == IF IsNone(narrative) THEN "documentary" ELSE Val(narrative).narrative_arc
    IN CASE arc = "hero_journey" -> "Personal transformation through challenge and triumph"
         [] arc = "transformation" -> "Internal change and self-discovery"
         [] arc = "love_story" -> "Connection and relationship development"
         [] arc = "tragedy" -> "Loss, reflection, and emotional truth"
         [] arc = "comedy" -> "Joy, humor, and lighthearted moments"
         [] arc = "mystery" -> "Discovery and revelation"
         [] arc = "documentary" -> "Authentic human experience and truth"
         [] arc = "montage" -> "Time, memory, and progression"
         [] arc = "interview" -> "Personal narrative and intimate perspective"
         [] arc = "event_coverage" -> "Celebration and shared experience"
         [] OTHER -> "Human experience captured through cinematic lens"

\* _generate_style(answers)
_generate_style(answers) ==
    LET rhythm == Lower(Get(answers, "editing_rhythm", "Medium"))
        tone == Get(answers, "emotional_tone", "neutral")
        color == Get(answers, "color_grade", "Natural")
    IN Join(<<IF Contains(rhythm, "slow")
              THEN "Contemplative pacing with deliberate, measured cuts"
              ELSE IF Contains(rhythm, "fast")
              THEN "Dynamic, energetic editing with rapid cuts"
              ELSE "Balanced rhythm with natural flow",
              Lower(tone) \o " emotional tone",
              Lower(color) \o " color palette">>, "; ")

\* the rhythm table of generate_plan: keyed by rhythm.lower().split()[0]
PlanCuts(first_word) ==
    IF first_word = "slow" THEN 8
    ELSE IF first_word = "medium" THEN 15
    ELSE IF first_word = "fast" THEN 30
    ELSE 15

MinScenes == 3
MaxScenes == 8
CutsPerScene == 4

\* the scene count without its upper limit
num_scenes_unlimited(total_duration, cuts_per_minute) ==
    Max(MinScenes, (total_duration * cuts_per_minute) \div (60 * CutsPerScene))

\* max(3, min(8, int((total_duration / 60) * cuts_per_minute / 4))): the float
\* quotient truncates to the integer quotient for the six durations of
\* _parse_duration and the three rates of the rhythm table
num_scenes(total_duration, cuts_per_minute) ==
    Max(MinScenes, Min(MaxScenes, (total_duration * cuts_per_minute) \div (60 * CutsPerScene)))

\* ScenePlanning.generate_plan(inputs); inputs bundles solicitud (optional),
\* answers, narrative (optional) and whether a transcription is present
generate_plan(inputs) ==
    LET answers == inputs.answers
        rhythm == Get(answers, "editing_rhythm", "Medium")
        tone == Get(answers, "emotional_tone", "neutral")
        total_duration == _parse_duration(Get(answers, "target_duration", "1-3 minutes"))
        first_words == Split(Lower(rhythm))
        n == num_scenes(total_duration, PlanCuts(first_words[1]))
        scene_durations == _calculate_scene_durations(total_duration, n, rhythm)
        emotional_progression ==
            IF IsNone(inputs.narrative) THEN <<>>
            ELSE Val(inputs.narrative).emotional_progression
    IN IF IsNone(inputs.solicitud) THEN Raise("AttributeError")   \* None.lower()
       ELSE IF first_words = <<>> THEN Raise("IndexError")        \* ''.split()[0]
       ELSE Ok([title |-> _generate_title(Val(inputs.solicitud), tone),
                theme |-> _generate_theme(inputs.narrative),
                style |-> _generate_style(answers),
                format |-> _determine_format(Get(answers, "target_platform", "YouTube")),
                voice_over |-> _generate_voice_over_config(answers),
                subtitles |-> _generate_subtitle_config(answers),
                scenes |-> _generate_scenes(answers, emotional_progression,
                                            inputs.transcripcion, scene_durations)])

\* Scene.validate_timestamp: v.split(':') has two or three parts
ValidTimestamp(v) == Cardinality(Occurrences(v, ":")) \in {1, 2}

\* ScenePlanningOutput, through validate_json_schema: at least one scene, the
\* scene ids are 1..N in order, every timestamp has two or three parts, the
\* format is a VideoFormat, an enabled voice-over has a voice and enabled
\* subtitles have a type
ValidScenePlan(plan) ==
    /\ Len(plan.scenes) >= 1
    /\ \A i \in DOMAIN plan.scenes : plan.scenes[i].scene_id = i
    /\ \A i \in DOMAIN plan.scenes :
          ValidTimestamp(plan.scenes[i].start) /\ ValidTimestamp(plan.scenes[i].end)
    /\ plan.format \in {"16:9", "9:16", "1:1"}
    /\ plan.voice_over.enabled => plan.voice_over.voices # <<>>
    /\ plan.subtitles.enabled => ~IsNone(plan.subtitles.type)

-----------------------------------------------------------------------------
(* The session store and the endpoints of app.py                           *)

\* session['data']: the keys the handlers read and write; NONE is a key that
\* is absent or holds None (the handlers read every key with .get)
EmptyData ==
    [phase1 |-> NONE,
     improved_prompt |-> NONE,
     prompt_approved |-> FALSE,
     final_prompt |-> NONE,
     phase2_questions |-> NONE,
     phase2_answers |-> NONE,
     phase3_narrative |-> NONE,
     phase4_scene_plan |-> NONE]

\* the record get_session creates (created_at, a clock reading, is left out)
NewSession(session_id) ==
    [id |-> session_id,
     video_path |-> NONE,
     transcription |-> NONE,
     visual_analysis |-> NONE,
     phase |-> NONE,
     webhook_config |-> NONE,
     data |-> EmptyData]

\* the store made anew for a session it does not hold
get_session_anew(store, session_id) ==
    IF session_id \in DOMAIN store THEN store
    ELSE [x \in {session_id} |-> NewSession(session_id)]
\* get_session(session_id): the store after the call
get_session(store, session_id) ==
    IF session_id \in DOMAIN store THEN store
    ELSE [x \in (DOMAIN store) \cup {session_id} |->
             IF x = session_id THEN NewSession(session_id) ELSE store[x]]

Response(op, session_id, status, error, body) ==
    [op |-> op, sid |-> session_id, status |-> status, error |-> error, body |-> body]

NoResponse == Response("none", "", 0, "", NONE)

InvalidSession(op, session_id) ==
    /\ session_id \notin DOMAIN sessions
    /\ resp' = Response(op, session_id, 400, "Invalid session ID", NONE)
    /\ UNCHANGED sessions

\* utils/webhook.py: what one attempt to reach the sink ends in: the sink
\* answers 204, the sink answers another status, aiohttp raises a
\* ClientError, or anything else is raised
AttemptOutcomes == {"204", "rejected", "client_error", "error"}

\* WebhookNotifier._send_webhook: both except clauses return False
_send_webhook(outcome) == outcome = "204"

\* WebhookNotifier.__init__: max_retries
max_retries == 3

\* WebhookNotifier._send_with_retry; sink[k] is the outcome of attempt k
_send_with_retry(sink) ==
    \E attempt \in 1..max_retries :
        /\ _send_webhook(sink[attempt])
        /\ \A earlier \in 1..(attempt - 1) : ~_send_webhook(sink[earlier])

\* WebhookNotifier.notify(config, event_type_str, ...): the stored
\* configuration has the default events map, in which every event is enabled
notify(config, event_type_str, sink) ==
    IF ~config.enabled THEN Ok(TRUE)
    ELSE IF IsNone(config.webhook_url) \/ Val(config.webhook_url) = "" THEN Ok(TRUE)
    ELSE Ok(_send_with_retry(sink))

\* if session.get('webhook_config'): asyncio.run(webhook_notifier.notify(...))
Notification(session, event_type_str, sink) ==
    IF IsNone(session.webhook_config) THEN Ok(TRUE)
    ELSE notify(Val(session.webhook_config), event_type_str, sink)

\* the handler is ended by a notification that did not get through
NotifyAbortsOnFailure(result) == Raised(result) \/ ~Val(result.value)
\* the handlers drop the flag notify returns: only an exception ends them
NotifyAborts(result) == Raised(result)

Aborts(session, event_type_str, sink) ==
    NotifyAborts(Notification(session, event_type_str, sink))

\* the 500 of an exception raised by a notification
NotifyFailure(op, session_id) == Response(op, session_id, 500, "notify", NONE)

\* POST /api/upload
upload_video(session_id, file, sink) ==
    LET store == get_session(sessions, session_id)
        filepath == "uploads/" \o session_id \o "_clip.mp4"
        saved == [store EXCEPT ![session_id].video_path = Some(filepath),
                               ![session_id].phase = Some("upload_complete")]
    IN /\ IF Aborts(store[session_id], "VIDEO_UPLOAD_STARTED", sink)
          THEN /\ sessions' = store
               /\ resp' = NotifyFailure("upload", session_id)
          ELSE /\ sessions' = IF file = "ok" THEN saved ELSE store
               /\ resp' =
                     CASE file = "absent" ->
                              Response("upload", session_id, 400, "No file part", NONE)
                       [] file = "unnamed" ->
                              Response("upload", session_id, 400, "No selected file", NONE)
                       [] file = "bad_type" ->
                              Response("upload", session_id, 400, "Invalid file type", NONE)
                       [] file = "save_error" ->
                              Response("upload", session_id, 500, "OSError", NONE)
                       [] file = "ok" ->
                              IF Aborts(store[session_id], "VIDEO_UPLOAD_COMPLETED", sink)
                              THEN NotifyFailure("upload", session_id)
                              ELSE Response("upload", session_id, 200, "", Some(filepath))
       /\ UNCHANGED <<fn, arg, out>>

WebhookUrlPrefix == "https://discord.com/api/webhooks/"

\* POST /api/webhook/config: WebhookConfig(**config).dict(), or the 400 of
\* validate_webhook_url; webhook_url is optional
configure_webhook(session_id, webhook_url, enabled, sink) ==
    LET store == get_session(sessions, session_id)
        valid == IsNone(webhook_url) \/ Val(webhook_url) = ""
                 \/ StartsWith(Val(webhook_url), WebhookUrlPrefix)
        config == [webhook_url |-> webhook_url, enabled |-> enabled]
        tested == ~IsNone(webhook_url) /\ Val(webhook_url) # ""
    IN /\ sessions' = IF valid THEN [store EXCEPT ![session_id].webhook_config = Some(config)]
                      ELSE store
       /\ resp' = IF ~valid
                  THEN Response("webhook", session_id, 400,
                                "Invalid Discord webhook URL format", NONE)
                  ELSE IF tested /\ NotifyAborts(notify(config, "WEBHOOK_TEST", sink))
                  THEN Response("webhook", session_id, 400, "notify", NONE)
                  ELSE Response("webhook", session_id, 200, "", Some(config))
       /\ UNCHANGED <<fn, arg, out>>

\* POST /api/phase1/refine
phase1_refine_prompt(session_id, original_prompt, sink) ==
    LET store == get_session(sessions, session_id)
        entered == [store EXCEPT ![session_id].phase = Some("phase1_prompt_refinement")]
        result == refine(original_prompt)
    IN /\ IF Aborts(store[session_id], "PROMPT_REFINEMENT_STARTED", sink)
          THEN /\ sessions' = entered
               /\ resp' = NotifyFailure("phase1_refine", session_id)
          ELSE IF ValidPromptRefinement(result)
          THEN /\ sessions' = [entered EXCEPT
                                  ![session_id].data.phase1 = Some(result),
                                  ![session_id].data.improved_prompt =
                                      Some(result.improved_prompt)]
               /\ resp' = IF Aborts(store[session_id], "PROMPT_REFINEMENT_IMPROVED", sink)
                          THEN NotifyFailure("phase1_refine", session_id)
                          ELSE Response("phase1_refine", session_id, 200, "", Some(result))
          ELSE /\ sessions' = entered
               /\ resp' = Response("phase1_refine", session_id, 500, "ValueError", NONE)
       /\ UNCHANGED <<fn, arg, out>>

\* POST /api/phase1/approve
phase1_approve(session_id, approved, feedback, sink) ==
    /\ \/ InvalidSession("phase1_approve", session_id)
       \/ /\ session_id \in DOMAIN sessions
          /\ LET session == sessions[session_id]
                 revision == refine_with_feedback(NONE, session.data.improved_prompt, feedback)
             IN IF approved
                THEN /\ sessions' = [sessions EXCEPT
                                        ![session_id].data.prompt_approved = TRUE,
                                        ![session_id].data.final_prompt =
                                            session.data.improved_prompt]
                     /\ resp' =
                           \* the notification slices final_prompt[:100]: None raises
                           IF ~IsNone(session.webhook_config)
                              /\ IsNone(session.data.improved_prompt)
                           THEN Response("phase1_approve", session_id, 500, "TypeError", NONE)
                           ELSE IF Aborts(session, "PROMPT_REFINEMENT_APPROVED", sink)
                           THEN NotifyFailure("phase1_approve", session_id)
                           ELSE Response("phase1_approve", session_id, 200, "",
                                         Some("phase2_intelligent_questioning"))
                ELSE /\ UNCHANGED sessions
                     /\ resp' =
                           IF Raised(revision)
                           THEN Response("phase1_revise", session_id, 500,
                                         revision.raised, NONE)
                           ELSE IF Aborts(session, "PROMPT_REFINEMENT_REVISION", sink)
                           THEN NotifyFailure("phase1_revise", session_id)
                           ELSE Response("phase1_revise", session_id, 200, "",
                                         revision.value)
    /\ UNCHANGED <<fn, arg, out>>

\* the prerequisite checks of the three gated phases
Phase2Prerequisite(session) == session.data.prompt_approved
\* the analysis guarded by check_completeness
Phase3PrerequisiteComplete(session) ==
    /\ ~IsNone(session.data.phase2_answers)
    /\ ~IsNone(session.data.phase2_questions)
    /\ check_completeness(Val(session.data.phase2_questions), Val(session.data.phase2_answers))
Phase3Prerequisite(session) ==
    ~IsNone(session.data.phase2_answers) /\ DOMAIN Val(session.data.phase2_answers) # {}
\* the planning guard left out
Phase4PrerequisiteDropped(session) == TRUE
Phase4Prerequisite(session) == ~IsNone(session.data.phase3_narrative)

\* data.get('phase2_answers', {})
AnswersOf(session) ==
    IF IsNone(session.data.phase2_answers) THEN EmptyDict
    ELSE Val(session.data.phase2_answers)

\* POST /api/phase2/questions
phase2_generate_questions(session_id, sink) ==
    /\ \/ InvalidSession("phase2_questions", session_id)
       \/ /\ session_id \in DOMAIN sessions
          /\ LET entered == [sessions EXCEPT
                                ![session_id].phase = Some("phase2_intelligent_questioning")]
                 session == sessions[session_id]
                 existing_answers == AnswersOf(session)
                 questions == generate_questions(session.data.final_prompt, existing_answers)
             IN IF ~Phase2Prerequisite(session)
                THEN /\ sessions' = entered
                     /\ resp' = Response("phase2_questions", session_id, 400,
                                    "Prompt not yet approved. Complete Phase 1 first.", NONE)
                ELSE IF Aborts(session, "INTELLIGENT_QUESTIONING_STARTED", sink)
                THEN /\ sessions' = entered
                     /\ resp' = NotifyFailure("phase2_questions", session_id)
                ELSE IF Raised(questions)
                THEN /\ sessions' = entered
                     /\ resp' = Response("phase2_questions", session_id, 500,
                                         questions.raised, NONE)
                ELSE /\ sessions' = [entered EXCEPT
                                        ![session_id].data.phase2_questions = questions.value]
                     /\ resp' =
                           IF Aborts(session, "INTELLIGENT_QUESTIONING_COMPLETED", sink)
                           THEN NotifyFailure("phase2_questions", session_id)
                           ELSE Response("phase2_questions", session_id, 200, "",
                                    Some([questions |-> Val(questions.value),
                                          total_questions |-> Len(Val(questions.value)),
                                          answered |-> Cardinality(DOMAIN existing_answers)]))
    /\ UNCHANGED <<fn, arg, out>>

\* the body of phase2_submit_answer: the store and the response
submit_answer(session_id, question_id, answer) ==
    \/ InvalidSession("phase2_answer", session_id)
    \/ /\ session_id \in DOMAIN sessions
       /\ LET session == sessions[session_id]
              answers == Put(AnswersOf(session), question_id, answer)
              questions == IF IsNone(session.data.phase2_questions) THEN <<>>
                           ELSE Val(session.data.phase2_questions)
              all_answered == check_completeness(questions, answers)
          IN /\ sessions' = [sessions EXCEPT
                                ![session_id].data.phase2_answers = Some(answers)]
             /\ resp' = Response("phase2_answer", session_id, 200, "",
                            Some([question_id |-> question_id,
                                  all_answered |-> all_answered,
                                  can_proceed |-> all_answered]))

\* POST /api/phase2/answer
phase2_submit_answer(session_id, question_id, answer) ==
    /\ submit_answer(session_id, question_id, answer)
    /\ UNCHANGED <<fn, arg, out>>

\* the whole stored analysis as the summary
NarrativeSummaryUnfiltered(narrative_result) == narrative_result
\* 'narrative_summary' of the phase-3 response: the arc and the tone only
NarrativeSummary(narrative_result) ==
    [arc |-> narrative_result.narrative_arc, tone |-> narrative_result.dominant_tone]

\* POST /api/phase3/analyze
phase3_narrative_analysis(session_id, sink) ==
    /\ \/ InvalidSession("phase3_analyze", session_id)
       \/ /\ session_id \in DOMAIN sessions
          /\ LET entered == [sessions EXCEPT
                                ![session_id].phase = Some("phase3_narrative_reasoning")]
                 session == sessions[session_id]
                 narrative_result == analyze(session.data.final_prompt, AnswersOf(session),
                                             session.visual_analysis)
             IN IF ~Phase3Prerequisite(session)
                THEN /\ sessions' = entered
                     /\ resp' = Response("phase3_analyze", session_id, 400,
                                    "Phase 2 not completed. Answer questions first.", NONE)
                ELSE IF Aborts(session, "NARRATIVE_REASONING_STARTED", sink)
                THEN /\ sessions' = entered
                     /\ resp' = NotifyFailure("phase3_analyze", session_id)
                ELSE IF Raised(narrative_result)
                THEN /\ sessions' = entered
                     /\ resp' = Response("phase3_analyze", session_id, 500,
                                         narrative_result.raised, NONE)
                ELSE /\ sessions' = [entered EXCEPT
                                        ![session_id].data.phase3_narrative =
                                            narrative_result.value]
                     /\ resp' =
                           IF Aborts(session, "NARRATIVE_REASONING_COMPLETED", sink)
                           THEN NotifyFailure("phase3_analyze", session_id)
                           ELSE Response("phase3_analyze", session_id, 200, "",
                                    Some([next_phase |-> "phase4_scene_planning",
                                          narrative_summary |->
                                              NarrativeSummary(Val(narrative_result.value))]))
    /\ UNCHANGED <<fn, arg, out>>

\* POST /api/phase4/plan
phase4_scene_planning(session_id, sink) ==
    /\ \/ InvalidSession("phase4_plan", session_id)
       \/ /\ session_id \in DOMAIN sessions
          /\ LET entered == [sessions EXCEPT
                                ![session_id].phase = Some("phase4_scene_planning")]
                 session == sessions[session_id]
                 inputs == [solicitud |-> session.data.final_prompt,
                            transcripcion |-> ~IsNone(session.transcription),
                            narrative |-> session.data.phase3_narrative,
                            answers |-> AnswersOf(session)]
                 scene_plan == generate_plan(inputs)
             IN IF ~Phase4Prerequisite(session)
                THEN /\ sessions' = entered
                     /\ resp' = Response("phase4_plan", session_id, 400,
                                    "Phase 3 not completed. Run narrative analysis first.", NONE)
                ELSE IF Aborts(session, "SCENE_PLANNING_STARTED", sink)
                THEN /\ sessions' = entered
                     /\ resp' = NotifyFailure("phase4_plan", session_id)
                ELSE IF Raised(scene_plan)
                THEN /\ sessions' = entered
                     /\ resp' = Response("phase4_plan", session_id, 500,
                                         scene_plan.raised, NONE)
                ELSE IF ~ValidScenePlan(Val(scene_plan.value))
                THEN /\ sessions' = entered
                     /\ resp' = Response("phase4_plan", session_id, 500, "ValueError", NONE)
                ELSE /\ sessions' = [entered EXCEPT
                                        ![session_id].data.phase4_scene_plan = scene_plan.value]
                     /\ resp' =
                           IF Aborts(session, "SCENE_PLANNING_COMPLETED", sink)
                           THEN NotifyFailure("phase4_plan", session_id)
                           ELSE Response("phase4_plan", session_id, 200, "", scene_plan.value)
    /\ UNCHANGED <<fn, arg, out>>

\* POST /api/transcription: the mock transcription
start_transcription(session_id, sink) ==
    /\ \/ InvalidSession("transcription", session_id)
       \/ /\ session_id \in DOMAIN sessions
          /\ IF IsNone(sessions[session_id].video_path)
             THEN /\ UNCHANGED sessions
                  /\ resp' = Response("transcription", session_id, 400,
                                      "No video uploaded", NONE)
             ELSE IF Aborts(sessions[session_id], "AUDIO_TRANSCRIPTION_STARTED", sink)
             THEN /\ UNCHANGED sessions
                  /\ resp' = NotifyFailure("transcription", session_id)
             ELSE /\ sessions' = [sessions EXCEPT ![session_id].transcription =
                                     Some([segments |-> <<>>, full_text |-> "",
                                           language |-> "es"])]
                  /\ resp' =
                        IF Aborts(sessions[session_id], "AUDIO_TRANSCRIPTION_COMPLETED", sink)
                        THEN NotifyFailure("transcription", session_id)
                        ELSE Response("transcription", session_id, 200, "", NONE)
    /\ UNCHANGED <<fn, arg, out>>

\* POST /api/visual-analysis: the mock analysis, with no scenes
start_visual_analysis(session_id, sink) ==
    /\ \/ InvalidSession("visual_analysis", session_id)
       \/ /\ session_id \in DOMAIN sessions
          /\ IF Aborts(sessions[session_id], "VISUAL_ANALYSIS_STARTED", sink)
             THEN /\ UNCHANGED sessions
                  /\ resp' = NotifyFailure("visual_analysis", session_id)
             ELSE /\ sessions' = [sessions EXCEPT ![session_id].visual_analysis =
                                     Some([scenes |-> <<>>])]
                  /\ resp' =
                        IF Aborts(sessions[session_id], "VISUAL_ANALYSIS_COMPLETED", sink)
                        THEN NotifyFailure("visual_analysis", session_id)
                        ELSE Response("visual_analysis", session_id, 200, "", NONE)
    /\ UNCHANGED <<fn, arg, out>>

\* POST /api/execute/cut, voiceover, subtitles, render: no session state
execute(endpoint, session_id, sink) ==
    /\ \/ InvalidSession(endpoint, session_id)
       \/ /\ session_id \in DOMAIN sessions
          /\ UNCHANGED sessions
          /\ resp' = IF Aborts(sessions[session_id], "EXECUTION", sink)
                     THEN NotifyFailure(endpoint, session_id)
                     ELSE Response(endpoint, session_id, 200, "", NONE)
    /\ UNCHANGED <<fn, arg, out>>

-----------------------------------------------------------------------------
(* The API machine: the requests clients send                              *)

SessionIds == {"s1"}
Prompts == {"", "Edit a 30 second tiktok"}
Feedbacks == {"shorter, please"}
UploadCases == {"bad_type", "ok"}
WebhookUrls == {Some(WebhookUrlPrefix \o "1/x"), Some("http://example.com/hook")}
AnswerInputs ==
    {<<"editing_rhythm", "Slow (contemplative, long takes, artistic)">>,
     <<"target_duration", "3-10 minutes (Long YouTube)">>}
ExecuteEndpoints == {"execute_render"}

\* the number of requests of one run
MaxCalls == 5

Init ==
    /\ sessions = EmptyDict
    /\ resp = NoResponse
    /\ calls = 0
    /\ fn = "api"
    /\ arg = NONE
    /\ out = NONE

\* one more request is handled
Counted == calls < MaxCalls /\ calls' = calls + 1

\* what the event sink does with the attempts of the notifications of one
\* request: every attempt is taken with a 204, or every attempt fails
Sinks == {<<"204", "204", "204">>, <<"error", "error", "error">>}

\* the sink is contacted for sessions with a webhook only
SinksFor(session_id) ==
    IF session_id \in DOMAIN sessions /\ ~IsNone(sessions[session_id].webhook_config)
    THEN Sinks
    ELSE {<<"204", "204", "204">>}

Upload ==
    Counted /\ \E sid \in SessionIds : \E file \in UploadCases, sink \in SinksFor(sid) :
                   upload_video(sid, file, sink)
ConfigureWebhook ==
    Counted /\ \E sid \in SessionIds, url \in WebhookUrls, sink \in Sinks :
                   configure_webhook(sid, url, TRUE, sink)
Refine ==
    Counted /\ \E sid \in SessionIds : \E p \in Prompts, sink \in SinksFor(sid) :
                   phase1_refine_prompt(sid, p, sink)
Approve ==
    Counted /\ \E sid \in SessionIds :
                   \E approved \in BOOLEAN, feedback \in Feedbacks, sink \in SinksFor(sid) :
                       phase1_approve(sid, approved, feedback, sink)
Questions ==
    Counted /\ \E sid \in SessionIds : \E sink \in SinksFor(sid) :
                   phase2_generate_questions(sid, sink)
Answer ==
    Counted /\ \E sid \in SessionIds, a \in AnswerInputs : phase2_submit_answer(sid, a[1], a[2])
Analyze ==
    Counted /\ \E sid \in SessionIds : \E sink \in SinksFor(sid) :
                   phase3_narrative_analysis(sid, sink)
Plan ==
    Counted /\ \E sid \in SessionIds : \E sink \in SinksFor(sid) :
                   phase4_scene_planning(sid, sink)
Transcribe ==
    Counted /\ \E sid \in SessionIds : \E sink \in SinksFor(sid) :
                   start_transcription(sid, sink)
VisualAnalysis ==
    Counted /\ \E sid \in SessionIds : \E sink \in SinksFor(sid) :
                   start_visual_analysis(sid, sink)
Execute ==
    Counted /\ \E sid \in SessionIds : \E e \in ExecuteEndpoints, sink \in SinksFor(sid) :
                   execute(e, sid, sink)

Next ==
    \/ Upload
    \/ ConfigureWebhook
    \/ Refine
    \/ Approve
    \/ Questions
    \/ Answer
    \/ Analyze
    \/ Plan
    \/ Transcribe
    \/ VisualAnalysis
    \/ Execute

Spec == Init /\ [][Next]_vars

\* the three gated endpoints
GatedOps == {"phase2_questions", "phase3_analyze", "phase4_plan"}

\* the prerequisite of a gated endpoint is absent in the session
PrerequisiteAbsent(op, session) ==
    \/ op = "phase2_questions" /\ ~session.data.prompt_approved
    \/ op = "phase3_analyze" /\ AnswersOf(session) = EmptyDict
    \/ op = "phase4_plan" /\ IsNone(session.data.phase3_narrative)

\* C1: a phase-2 call fails with an error when prompt_approved is not set, a
\* phase-3 call fails when no answer is recorded, a phase-4 call fails when no
\* narrative analysis is stored; the call then returns no phase output and
\* stores none
C1_PhaseGuards ==
    [][\A sid \in DOMAIN sessions :
          (resp'.sid = sid /\ PrerequisiteAbsent(resp'.op, sessions[sid]))
              => /\ resp'.status = 400
                 /\ resp'.body = NONE
                 /\ sessions'[sid].data = sessions[sid].data]_vars

\* a planning call was rejected in a session that holds no narrative analysis
C1_Witness ==
    /\ resp.op = "phase4_plan"
    /\ resp.status = 400
    /\ resp.sid \in DOMAIN sessions
    /\ IsNone(sessions[resp.sid].data.phase3_narrative)
    /\ IsNone(sessions[resp.sid].data.phase4_scene_plan)

\* C2: whenever a phase-2, phase-3 or phase-4 call is rejected because its
\* prerequisite is absent, the session's phase field and its whole data store
\* are what they were before the call
C2_NoMutationOnRejection ==
    [][\A sid \in DOMAIN sessions :
          (resp'.sid = sid /\ resp'.op \in GatedOps /\ resp'.status = 400)
              => /\ sessions'[sid].phase = sessions[sid].phase
                 /\ sessions'[sid].data = sessions[sid].data]_vars

\* the order of the phases; a session just created holds no phase
PhaseOrder ==
    <<"upload_complete", "phase1_prompt_refinement", "phase2_intelligent_questioning",
      "phase3_narrative_reasoning", "phase4_scene_planning">>

PhaseRank(phase) ==
    IF IsNone(phase) THEN 0 ELSE CHOOSE i \in DOMAIN PhaseOrder : PhaseOrder[i] = Val(phase)

\* C3: in every session, after any sequence of API calls, the phase field
\* never moves to a phase earlier in the order than the one it holds
C3_PhaseNeverMovesBack ==
    [][\A sid \in DOMAIN sessions :
          PhaseRank(sessions'[sid].phase) >= PhaseRank(sessions[sid].phase)]_vars

\* C4: a phase-3 call in a session whose prompt was never approved, and a
\* phase-2 call before any successful refinement, end with a precondition
\* error (400) that names the missing prerequisite, never with a 500
C4_OutOfOrderIsPreconditionError ==
    [][\A sid \in DOMAIN sessions :
          (/\ resp'.sid = sid
           /\ \/ resp'.op = "phase3_analyze" /\ ~sessions[sid].data.prompt_approved
              \/ resp'.op = "phase2_questions" /\ IsNone(sessions[sid].data.improved_prompt))
              => /\ resp'.status = 400
                 /\ resp'.error \in {"Prompt not yet approved. Complete Phase 1 first.",
                                     "Phase 2 not completed. Answer questions first."}]_vars

\* C5: an approval call with approved=false returns a revised refinement, and
\* the session's phase, prompt_approved, final_prompt, improved_prompt and all
\* other stored data are unchanged by it
C5_RevisionLeavesSessionUnchanged ==
    [][resp'.op = "phase1_revise"
          => /\ resp'.status = 200
             /\ resp'.body # NONE
             /\ sessions' = sessions]_vars

-----------------------------------------------------------------------------
(* PromptRefiner.refine applied to one prompt                              *)

\* words a prompt is put together from: each adds or removes one issue
PromptWords ==
    <<"make", "a nice", "video", "60 seconds", "for youtube", "soon",
      "in hd format", "for fans">>

\* how many of the PromptWords the prompts draw from
MaxWords == 6

\* the words picked by `picked`, in order, joined by single spaces
RECURSIVE Phrase(_, _)
Phrase(picked, i) ==
    IF i > Len(PromptWords) THEN ""
    ELSE LET rest == Phrase(picked, i + 1)
         IN IF i \notin picked THEN rest
            ELSE IF rest = "" THEN PromptWords[i]
            ELSE PromptWords[i] \o " " \o rest

BlankPrompts == {"", " ", "\t ", " \n "}

RefinePrompts ==
    {Phrase(picked, 1) : picked \in SUBSET (1..MaxWords)} \cup BlankPrompts

InitRefine ==
    /\ sessions = EmptyDict
    /\ resp = NoResponse
    /\ calls = 0
    /\ fn = "refine"
    /\ arg \in RefinePrompts
    /\ out = NONE

ApplyRefine ==
    /\ fn = "refine"
    /\ out = NONE
    /\ out' = Some(refine(arg))
    /\ UNCHANGED <<sessions, resp, calls, fn, arg>>

NextRefine == ApplyRefine

SpecRefine == InitRefine /\ [][NextRefine]_vars

Refined == fn = "refine" /\ out # NONE

\* C9: for every input to refine, the empty string and whitespace-only
\* strings included, the returned refinement has a non-empty improved_prompt
C9_ImprovedPromptNonEmpty ==
    Refined => Val(out).improved_prompt # ""

\* C10 as stated: for every input to refine, user_action_required is "revise"
\* exactly when more than two issues were detected, and "accept" otherwise
C10_ReviseIffMoreThanTwoIssues ==
    Refined =>
        /\ Val(out).user_action_required \in {"revise", "accept"}
        /\ Val(out).user_action_required = "revise"
               <=> Len(Val(out).issues_detected) > RevisionThreshold

\* C10, amended: for an input that is not blank, user_action_required is
\* "revise" exactly when more than two issues were detected and "accept"
\* otherwise; a blank input (empty or whitespace only) is answered with the
\* single issue "Empty prompt provided" and "revise"
C10_ReviseRule ==
    Refined =>
        IF Strip(arg) = ""
        THEN /\ Val(out).issues_detected = <<IssueEmpty>>
             /\ Val(out).user_action_required = "revise"
        ELSE /\ Val(out).user_action_required \in {"revise", "accept"}
             /\ Val(out).user_action_required = "revise"
                    <=> Len(Val(out).issues_detected) > RevisionThreshold

\* a prompt with exactly three issues was refined and must be revised
C10_Witness ==
    /\ Refined
    /\ Strip(arg) # ""
    /\ Len(Val(out).issues_detected) = RevisionThreshold + 1
    /\ Val(out).user_action_required = "revise"

-----------------------------------------------------------------------------
(* ScenePlanning.generate_plan applied to one set of answers               *)

\* the options of the target_duration and editing_rhythm questions, an
\* absent answer (NONE), and free-text answers the answer endpoint accepts
DurationAnswers ==
    {NONE,
     Some("15-30 seconds (Short social media)"),
     Some("30-60 seconds (Standard social)"),
     Some("1-3 minutes (YouTube short/Medium)"),
     Some("3-10 minutes (Long YouTube)"),
     Some("10-30 minutes (Extended content)"),
     Some("Feature length (30+ minutes)")}

RhythmOptions ==
    {"Slow (contemplative, long takes, artistic)",
     "Medium (balanced, standard pacing)",
     "Fast (dynamic, quick cuts, energetic)",
     "Variable (mix of paces for emotional effect)"}

RhythmAnswers == {NONE, Some(" "), Some("not too slow")} \cup {Some(r) : r \in RhythmOptions}

PlanPrompt == "Goal: Edit a 30 second tiktok"

\* the answers dictionary holding the optional answers given
AnswersFrom(duration, rhythm) ==
    LET a == IF IsNone(duration) THEN EmptyDict
             ELSE Put(EmptyDict, "target_duration", Val(duration))
    IN IF IsNone(rhythm) THEN a ELSE Put(a, "editing_rhythm", Val(rhythm))

\* the inputs phase4_scene_planning hands to generate_plan once the narrative
\* of the same answers is stored
PlanInputs(a) ==
    LET answers == AnswersFrom(a.duration, a.rhythm)
    IN [solicitud |-> Some(PlanPrompt),
        transcripcion |-> a.transcripcion,
        narrative |-> analyze(Some(PlanPrompt), answers, NONE).value,
        answers |-> answers]

InitPlan ==
    /\ sessions = EmptyDict
    /\ resp = NoResponse
    /\ calls = 0
    /\ fn = "generate_plan"
    /\ arg \in [duration : DurationAnswers, rhythm : RhythmAnswers, transcripcion : BOOLEAN]
    /\ out = NONE

ApplyPlan ==
    /\ fn = "generate_plan"
    /\ out = NONE
    /\ out' = Some(generate_plan(PlanInputs(arg)))
    /\ UNCHANGED <<sessions, resp, calls, fn, arg>>

NextPlan == ApplyPlan

SpecPlan == InitPlan /\ [][NextPlan]_vars

\* the pieces of s between the occurrences of a one-character separator
SplitOn(s, sep) ==
    LET at == Occurrences(s, sep)
        Nth(k) == CHOOSE x \in at : Cardinality({y \in at : y < x}) = k - 1
        From(k) == IF k = 1 THEN 1 ELSE Nth(k - 1) + 1
        To(k) == IF k = Cardinality(at) + 1 THEN Len(s) ELSE Nth(k) - 1
    IN [k \in 1..(Cardinality(at) + 1) |-> SubSeq(s, From(k), To(k))]

\* int(s) for a string of decimal digits
RECURSIVE ParseInt(_)
ParseInt(s) ==
    IF Len(s) = 0 THEN 0
    ELSE 10 * ParseInt(SubSeq(s, 1, Len(s) - 1))
         + (CHOOSE d \in 0..9 : Char(Digits, d + 1) = Char(s, Len(s)))

\* the seconds a timestamp MM:SS or HH:MM:SS stands for
TimestampSeconds(v) ==
    LET parts == SplitOn(v, ":")
    IN IF Len(parts) = 3
       THEN 3600 * ParseInt(parts[1]) + 60 * ParseInt(parts[2]) + ParseInt(parts[3])
       ELSE 60 * ParseInt(parts[1]) + ParseInt(parts[2])

\* generate_plan returned a plan
Planned == fn = "generate_plan" /\ out # NONE /\ ~Raised(Val(out))
PlannedScenes == Val(Val(out).value).scenes

\* C6: for every duration answer and rhythm answer, the plan generate_plan
\* returns has N scenes with 3 <= N <= 8, and the scene ids are 1, 2, ..., N
\* in list order
C6_SceneCountAndIds ==
    Planned =>
        /\ Len(PlannedScenes) >= 3
        /\ Len(PlannedScenes) <= 8
        /\ \A k \in 1..Len(PlannedScenes) : PlannedScenes[k].scene_id = k

\* a long slow edit: the scene count is cut down to eight
C6_Witness ==
    /\ Planned
    /\ arg.duration = Some("10-30 minutes (Extended content)")
    /\ arg.rhythm = Some("Slow (contemplative, long takes, artistic)")
    /\ Len(PlannedScenes) = 8
    /\ PlannedScenes[8].scene_id = 8

\* C7: in every scene of every generated plan the end timestamp, in seconds,
\* is greater than or equal to the start timestamp, the last scene included
C7_EndNotBeforeStart ==
    Planned =>
        \A k \in 1..Len(PlannedScenes) :
            TimestampSeconds(PlannedScenes[k].end) >= TimestampSeconds(PlannedScenes[k].start)

-----------------------------------------------------------------------------
(* _calculate_scene_durations and _generate_scenes applied to one runtime,  *)
(* scene count and rhythm                                                   *)

\* the runtimes _parse_duration resolves an answer to
PlanDurations == {_parse_duration(Val(d)) : d \in DurationAnswers \ {NONE}}

InitDurations ==
    /\ sessions = EmptyDict
    /\ resp = NoResponse
    /\ calls = 0
    /\ fn = "scene_durations"
    /\ arg \in [total_duration : PlanDurations,
                num_scenes : MinScenes..MaxScenes,
                rhythm : RhythmOptions]
    /\ out = NONE

ApplyDurations ==
    /\ fn = "scene_durations"
    /\ out = NONE
    /\ LET answers == Put(EmptyDict, "editing_rhythm", arg.rhythm)
           scene_durations ==
               _calculate_scene_durations(arg.total_duration, arg.num_scenes, arg.rhythm)
       IN out' = Some([durations |-> scene_durations,
                       scenes |-> _generate_scenes(answers, map_emotional_progression(answers),
                                                   FALSE, scene_durations)])
    /\ UNCHANGED <<sessions, resp, calls, fn, arg>>

NextDurations == ApplyDurations

SpecDurations == InitDurations /\ [][NextDurations]_vars

RECURSIVE SumOf(_)
SumOf(seq) == IF seq = <<>> THEN 0 ELSE Head(seq) + SumOf(Tail(seq))

Distributed == fn = "scene_durations" /\ out # NONE

\* C8: for every total runtime, scene count N and rhythm, the durations of
\* _calculate_scene_durations sum exactly to the total runtime; every scene
\* but the last keeps total/N scaled by 1.2 (slow), 0.8 (fast) or 1 and
\* truncated, only the last is corrected; the first scene starts at 0, each
\* scene starts where the previous one ends, the last ends at the total
C8_DurationsSumToTotal ==
    Distributed =>
        LET durations == Val(out).durations
            scenes == Val(out).scenes
            N == arg.num_scenes
            tenths == IF StartsWith(arg.rhythm, "Slow") THEN 12
                      ELSE IF StartsWith(arg.rhythm, "Fast") THEN 8
                      ELSE 10
        IN /\ Len(durations) = N
           /\ Len(scenes) = N
           /\ SumOf(durations) = arg.total_duration
           /\ \A k \in 1..(N - 1) :
                  durations[k] = ((arg.total_duration \div N) * tenths) \div 10
           /\ TimestampSeconds(scenes[1].start) = 0
           /\ \A k \in 1..(N - 1) :
                  TimestampSeconds(scenes[k + 1].start) = TimestampSeconds(scenes[k].end)
           /\ TimestampSeconds(scenes[N].end) = arg.total_duration

\* a fast edit of 120 seconds in 7 scenes: six scenes of 13 seconds, and the
\* last scene takes the 42 seconds that are left
C8_Witness ==
    /\ Distributed
    /\ arg.total_duration = 120
    /\ arg.num_scenes = 7
    /\ StartsWith(arg.rhythm, "Fast")
    /\ Val(out).durations[1] = 13
    /\ Val(out).durations[7] = 42
    /\ Val(out).scenes[7].end = "02:00"


-----------------------------------------------------------------------------
(* IntelligentQuestioning.generate_questions called repeatedly on one      *)
(* prompt and one set of answers                                           *)

\* prompts that mention none, some or most of the categories asked about
QuestionPrompts ==
    {"",
     "Edit my trip",
     "A calm 16:9 video for youtube",
     "Short film with music and captions",
     "Tell a dramatic story and end on a song",
     "Fast paced square clip, 30 seconds, for tiktok",
     "Serious interview with narration and subtitles, wrap up quietly",
     "Make a nice video"}

\* the questions that may have an answer already
AnsweredIds == {"video_format", "emotional_tone", "voice_over_needed", "source_material"}

\* the answers dictionary with an answer for every id of ids
AnswersTo(ids) == [k \in ids |-> "Yes"]

\* how often the same call is repeated
MaxRepeats == 2

InitQuestions ==
    /\ sessions = EmptyDict
    /\ resp = NoResponse
    /\ calls = 0
    /\ fn = "generate_questions"
    /\ arg \in [prompt : QuestionPrompts, answered : SUBSET AnsweredIds]
    /\ out = <<>>

\* one more call with the same arguments; out collects the returned lists
AskQuestions ==
    /\ fn = "generate_questions"
    /\ Len(out) < MaxRepeats
    /\ out' = Append(out, Val(generate_questions(Some(arg.prompt),
                                                 AnswersTo(arg.answered)).value))
    /\ UNCHANGED <<sessions, resp, calls, fn, arg>>

NextQuestions == AskQuestions

SpecQuestions == InitQuestions /\ [][NextQuestions]_vars

\* required questions come first, and ids ascend among questions that are
\* equally required
OrderedQuestions(qs) ==
    \A a, b \in 1..Len(qs) :
        a < b => /\ qs[a].required \/ ~qs[b].required
                 /\ qs[a].required = qs[b].required => StrLess(qs[a].id, qs[b].id)

-----------------------------------------------------------------------------
(* IntelligentQuestioning.check_completeness applied to one question list  *)
(* and one set of answers                                                  *)

\* the ids of the required and of the optional question templates
RequiredPool ==
    <<"editing_rhythm", "emotional_tone", "source_material", "target_duration",
      "target_platform", "video_format">>
OptionalPool == <<"ending_style", "music_style">>

\* an id no template has
ForeignId == "favourite_colour"

\* the question list of the first `required` required and the first
\* `optional` optional templates, as generate_questions orders them
QuestionList(required, optional) ==
    [k \in 1..(required + optional) |->
        IF k <= required
        THEN [id |-> RequiredPool[k], required |-> TRUE]
        ELSE [id |-> OptionalPool[k - required], required |-> FALSE]]

PoolIds(pool) == {pool[k] : k \in DOMAIN pool}

InitCompleteness ==
    /\ sessions = EmptyDict
    /\ resp = NoResponse
    /\ calls = 0
    /\ fn = "check_completeness"
    /\ arg \in [required : 0..Len(RequiredPool),
                optional : 0..Len(OptionalPool),
                answered : SUBSET (PoolIds(RequiredPool) \cup {OptionalPool[1], ForeignId})]
    /\ out = NONE

ApplyCompleteness ==
    /\ fn = "check_completeness"
    /\ out = NONE
    /\ out' = Some(check_completeness(QuestionList(arg.required, arg.optional),
                                      AnswersTo(arg.answered)))
    /\ UNCHANGED <<sessions, resp, calls, fn, arg>>

NextCompleteness == ApplyCompleteness

SpecCompleteness == InitCompleteness /\ [][NextCompleteness]_vars

\* the ids of the required questions of the list
RequiredIdsOf(a) == {RequiredPool[k] : k \in 1..a.required}

-----------------------------------------------------------------------------
(* The API machine: questions, answers and analysis                        *)

\* data.get('phase2_questions', [])
QuestionsOf(session) ==
    IF IsNone(session.data.phase2_questions) THEN <<>>
    ELSE Val(session.data.phase2_questions)

\* C13: a phase-3 analysis call succeeds only in a session where
\* check_completeness holds for the generated questions and the recorded
\* answers of the session
C13_AnalysisOnlyWhenComplete ==
    [][\A sid \in DOMAIN sessions :
          (resp'.op = "phase3_analyze" /\ resp'.sid = sid /\ resp'.status = 200)
              => check_completeness(QuestionsOf(sessions[sid]), AnswersOf(sessions[sid]))]_vars


\* C14: the answer set of a session only grows: whatever the next API call
\* is, the session is still there and every question id with a recorded
\* answer keeps one (the value may be replaced)
C14_AnswersOnlyGrow ==
    [][\A sid \in DOMAIN sessions :
          /\ sid \in DOMAIN sessions'
          /\ DOMAIN AnswersOf(sessions[sid]) \subseteq DOMAIN AnswersOf(sessions'[sid])]_vars

\* two answers were recorded and a later refinement call left both in place
C14_Witness ==
    /\ "s1" \in DOMAIN sessions
    /\ DOMAIN AnswersOf(sessions["s1"]) = {"editing_rhythm", "target_duration"}
    /\ resp.op = "phase1_refine"
    /\ resp.status = 200

-----------------------------------------------------------------------------
(* The notification machine: the phase endpoints of a session whose webhook
   may be configured, each request meeting every behaviour of the sink. *)

MaxNotifyCalls == 6

NotifyPrompts == {"Edit a 30 second tiktok"}
NotifyFeedbacks == {"make it shorter"}
NotifyAnswers == {<<"editing_rhythm", "Slow">>}
NotifyUrls == {Some("https://discord.com/api/webhooks/1/abc")}

Delivered == <<"204", "204", "204">>

\* the sink takes the first attempt, rejects every attempt, cannot be
\* reached, or fails differently on each attempt
NotifySinks ==
    {Delivered,
     <<"rejected", "rejected", "rejected">>,
     <<"client_error", "client_error", "client_error">>,
     <<"error", "client_error", "rejected">>}

NotifyCounted == calls < MaxNotifyCalls /\ calls' = calls + 1

\* the session configures its webhook before it starts the phases
NotifyConfigure ==
    /\ calls = 0
    /\ NotifyCounted
    /\ \E sid \in SessionIds, url \in NotifyUrls, sink \in NotifySinks :
           configure_webhook(sid, url, TRUE, sink)
NotifyRefine ==
    calls > 0 /\ NotifyCounted /\ \E sid \in SessionIds, p \in NotifyPrompts, sink \in NotifySinks :
                         phase1_refine_prompt(sid, p, sink)
NotifyApprove ==
    calls > 0 /\ NotifyCounted /\ \E sid \in SessionIds, approved \in BOOLEAN,
                        feedback \in NotifyFeedbacks, sink \in NotifySinks :
                         phase1_approve(sid, approved, feedback, sink)
NotifyQuestions ==
    calls > 0 /\ NotifyCounted /\ \E sid \in SessionIds, sink \in NotifySinks :
                         phase2_generate_questions(sid, sink)
NotifyAnswer ==
    calls > 0 /\ NotifyCounted /\ \E sid \in SessionIds, a \in NotifyAnswers :
                         phase2_submit_answer(sid, a[1], a[2])
NotifyAnalyze ==
    calls > 0 /\ NotifyCounted /\ \E sid \in SessionIds, sink \in NotifySinks :
                         phase3_narrative_analysis(sid, sink)
NotifyPlan ==
    calls > 0 /\ NotifyCounted /\ \E sid \in SessionIds, sink \in NotifySinks :
                         phase4_scene_planning(sid, sink)

NextNotify ==
    \/ NotifyConfigure
    \/ NotifyRefine
    \/ NotifyApprove
    \/ NotifyQuestions
    \/ NotifyAnswer
    \/ NotifyAnalyze
    \/ NotifyPlan

SpecNotify == Init /\ [][NextNotify]_vars

\* the step a request takes with the sink behaving as `sink` is the step it
\* takes when every notification is delivered
SameAsDelivered(sid, sink) ==
    /\ \A p \in NotifyPrompts :
           (resp'.op = "phase1_refine" /\ phase1_refine_prompt(sid, p, sink))
               => phase1_refine_prompt(sid, p, Delivered)
    /\ \A approved \in BOOLEAN, feedback \in NotifyFeedbacks :
           (resp'.op \in {"phase1_approve", "phase1_revise"}
                /\ phase1_approve(sid, approved, feedback, sink))
               => phase1_approve(sid, approved, feedback, Delivered)
    /\ (resp'.op = "phase2_questions" /\ phase2_generate_questions(sid, sink))
           => phase2_generate_questions(sid, Delivered)
    /\ (resp'.op = "phase3_analyze" /\ phase3_narrative_analysis(sid, sink))
           => phase3_narrative_analysis(sid, Delivered)
    /\ (resp'.op = "phase4_plan" /\ phase4_scene_planning(sid, sink))
           => phase4_scene_planning(sid, Delivered)

\* C15: a notification never raises, and the response and the stored session
\* of a phase request are the same whether its notifications are delivered,
\* rejected by the sink, fail on every retry or hit a transport error
C15_NotificationNeverAffectsPhase ==
    [][\A sid \in SessionIds, sink \in NotifySinks :
           /\ SameAsDelivered(sid, sink)
           /\ sid \in DOMAIN sessions
                  => ~Raised(Notification(sessions[sid], "SCENE_PLANNING_COMPLETED", sink))]_vars

\* a plan is returned to a session whose enabled webhook points at a sink
C15_Witness ==
    /\ resp.op = "phase4_plan" /\ resp.status = 200
    /\ \E sid \in DOMAIN sessions :
           /\ ~IsNone(sessions[sid].webhook_config)
           /\ Val(sessions[sid].webhook_config).enabled
           /\ ~IsNone(sessions[sid].data.phase4_scene_plan)

-----------------------------------------------------------------------------
(* What the response bodies carry.                                         *)

\* the keys of '_internal_analysis' in the result of NarrativeReasoning.analyze
InternalKeys ==
    {"_internal_analysis", "arc_confidence", "emotional_beats_count",
     "contrast_opportunities", "pacing_notes"}

\* the keys of the scene plan and of the objects in it
PlanKeys(plan) ==
    DOMAIN plan \cup DOMAIN plan.voice_over \cup DOMAIN plan.subtitles
        \cup UNION {DOMAIN plan.scenes[i] : i \in DOMAIN plan.scenes}

\* the keys of the JSON objects of a response body
BodyKeys(r) ==
    IF r.status # 200 \/ IsNone(r.body) THEN {}
    ELSE CASE r.op = "phase3_analyze" ->
                  DOMAIN Val(r.body) \cup DOMAIN Val(r.body).narrative_summary
           [] r.op = "phase4_plan" -> PlanKeys(Val(r.body))
           [] r.op = "phase2_questions" ->
                  DOMAIN Val(r.body)
                      \cup UNION {DOMAIN Val(r.body).questions[i] :
                                      i \in DOMAIN Val(r.body).questions}
           [] r.op \in {"phase1_refine", "phase2_answer", "webhook"} -> DOMAIN Val(r.body)
           [] OTHER -> {}

\* C16: no response body, the bodies of phase 3 and phase 4 included, carries
\* the internal analysis (arc confidence, beat count, contrast count, pacing
\* notes) that the narrative analysis stores in the session
C16_InternalAnalysisNotExposed == BodyKeys(resp) \cap InternalKeys = {}

\* a plan is returned for a session whose stored analysis holds the internal
\* object
C16_Witness ==
    /\ resp.op = "phase4_plan" /\ resp.status = 200
    /\ \E sid \in DOMAIN sessions :
           /\ ~IsNone(sessions[sid].data.phase3_narrative)
           /\ DOMAIN Val(sessions[sid].data.phase3_narrative)._internal_analysis
                  = InternalKeys \ {"_internal_analysis"}

-----------------------------------------------------------------------------
(* Two request threads in phase2_submit_answer for one session. The server
   runs handlers in threads and the store has no lock, so the steps of the
   two handlers interleave. A dict is an object: heap[n] is the dict with
   identity n, data['phase2_answers'] of the session holds an identity, and a
   thread that has loaded the dict keeps the identity it loaded. *)

Threads == {"t1", "t2"}
RaceSession == "s1"
RaceQuestionIds == {"editing_rhythm", "emotional_tone", "ending_style"}
RaceAnswers == {"Slow", "Fast"}
RaceRequests == [question_id : RaceQuestionIds, answer : RaceAnswers]

\* the answers of a session that was answered before the two requests
EarlierAnswers == [k \in {"source_material"} |-> "Raw clips"]

\* the session, with the questions of phase 2 and with or without answers
RaceStore(answered) ==
    [x \in {RaceSession} |->
        [NewSession(x) EXCEPT
            !.phase = Some("phase2_intelligent_questioning"),
            !.data.prompt_approved = TRUE,
            !.data.phase2_questions = Some(QuestionList(2, 1)),
            !.data.phase2_answers = IF answered THEN Some(1) ELSE NONE]]

ThreadStart == [pc |-> "check", ref |-> 0, absent |-> FALSE, response |-> NoResponse]

InitRace ==
    /\ \E answered \in BOOLEAN :
           /\ sessions = RaceStore(answered)
           /\ out = [heap |-> IF answered THEN <<EarlierAnswers>> ELSE <<>>,
                     threads |-> [t \in Threads |-> ThreadStart]]
    /\ resp = NoResponse
    /\ calls = 0
    /\ fn = "phase2_submit_answer"
    /\ arg \in {r \in [Threads -> RaceRequests] :
                    r["t1"].question_id # r["t2"].question_id}

\* the dict stored under the identity the thread holds is the same object
\* with the item set
StoreItemFresh(heap, ref, k, v) == [heap EXCEPT ![ref] = PutFresh(@, k, v)]
StoreItem(heap, ref, k, v) == [heap EXCEPT ![ref] = Put(@, k, v)]

\* session['data']['phase2_answers'] of the session under the race
AnswersRef == sessions[RaceSession].data.phase2_answers

AtStep(t, pc) ==
    /\ out.threads[t].pc = pc
    /\ UNCHANGED <<calls, fn, arg>>

\* if 'phase2_answers' not in session['data']:
CheckAbsent(t) ==
    /\ AtStep(t, "check")
    /\ out' = [out EXCEPT !.threads[t].absent = IsNone(AnswersRef),
                          !.threads[t].pc = IF IsNone(AnswersRef) THEN "create" ELSE "load"]
    /\ UNCHANGED <<sessions, resp>>

\* session['data']['phase2_answers'] = {}
CreateMap(t) ==
    /\ AtStep(t, "create")
    /\ out' = [out EXCEPT !.heap = Append(@, EmptyDict), !.threads[t].pc = "load"]
    /\ sessions' = [sessions EXCEPT
                       ![RaceSession].data.phase2_answers = Some(Len(out.heap) + 1)]
    /\ UNCHANGED resp

\* session['data']['phase2_answers'][question_id] = answer: the dict is loaded
LoadMap(t) ==
    /\ AtStep(t, "load")
    /\ out' = [out EXCEPT !.threads[t].ref = Val(AnswersRef), !.threads[t].pc = "store"]
    /\ UNCHANGED <<sessions, resp>>

\* ... and the item is stored in the dict that was loaded
StoreAnswer(t) ==
    /\ AtStep(t, "store")
    /\ out' = [out EXCEPT
                  !.heap = StoreItem(@, out.threads[t].ref,
                                     arg[t].question_id, arg[t].answer),
                  !.threads[t].pc = "respond"]
    /\ UNCHANGED <<sessions, resp>>

\* check_completeness on the dict the session holds now, and the 200
Respond(t) ==
    /\ AtStep(t, "respond")
    /\ LET all_answered ==
               check_completeness(Val(sessions[RaceSession].data.phase2_questions),
                                  out.heap[Val(AnswersRef)])
           response == Response("phase2_answer", RaceSession, 200, "",
                           Some([question_id |-> arg[t].question_id,
                                 all_answered |-> all_answered,
                                 can_proceed |-> all_answered]))
       IN /\ resp' = response
          /\ out' = [out EXCEPT !.threads[t].response = response,
                                !.threads[t].pc = "done"]
    /\ UNCHANGED sessions

NextRace ==
    \/ \E t \in Threads : CheckAbsent(t)
    \/ \E t \in Threads : CreateMap(t)
    \/ \E t \in Threads : LoadMap(t)
    \/ \E t \in Threads : StoreAnswer(t)
    \/ \E t \in Threads : Respond(t)

SpecRace == InitRace /\ [][NextRace]_vars

\* both requests have returned
BothReturned == fn = "phase2_submit_answer" /\ \A t \in Threads : out.threads[t].pc = "done"

\* the answers the session holds
Recorded == out.heap[Val(AnswersRef)]

\* the answer of a request is not among the answers the session holds
Lost(t) == ~Has(Recorded, arg[t].question_id)

\* C17: when two concurrent submissions for different questions of one
\* session have both returned success, an answer can be missing from the
\* session; this happens only if both requests found the session without
\* answers, the answer of at least one request is always recorded, and what
\* is recorded is what was submitted
C17_LostUpdateOnlyOnFirstAnswers ==
    BothReturned =>
        /\ \A t \in Threads : out.threads[t].response.status = 200
        /\ \E t \in Threads : ~Lost(t)
        /\ (\E t \in Threads : Lost(t)) => \A t \in Threads : out.threads[t].absent
        /\ \A t \in Threads :
               ~Lost(t) => Recorded[arg[t].question_id] = arg[t].answer

\* both requests returned success and the session holds one of the two answers
C17_Witness ==
    /\ BothReturned
    /\ \A t \in Threads : out.threads[t].response.status = 200
    /\ Lost("t1")
    /\ ~Lost("t2")
    /\ DOMAIN Recorded = {arg["t2"].question_id}

-----------------------------------------------------------------------------
(* The walk of test_api.py through the four phases: refine, approve,
   questions, an answer to each of the first two required questions,
   analyze, plan, on a session no request has named before. *)

HappySessions == {"test-session-comprehensive-001", "s2"}

\* prompts that refine does not take for empty input: each has a character
\* that is not whitespace
HappyPrompts ==
    {"Make a nice video about my vacation",
     "x",
     "Edit my trip",
     "A calm 16:9 video for youtube",
     "Short film with music and captions",
     "Tell a dramatic story and end on a song",
     "Fast paced square clip, 30 seconds, for tiktok",
     "Serious interview with narration and subtitles, wrap up quietly",
     "make a video"}

\* q['options'][0] of the required templates
FirstOption(question_id) ==
    CASE question_id = "video_format" -> "16:9 (Landscape - YouTube, Film, TV)"
      [] question_id = "target_platform" -> "YouTube (long-form, 16:9)"
      [] question_id = "target_duration" -> "15-30 seconds (Short social media)"
      [] question_id = "editing_rhythm" -> "Slow (contemplative, long takes, artistic)"
      [] question_id = "emotional_tone" -> "Joyful / Uplifting"
      [] question_id = "source_material" -> "Single continuous take"
      [] OTHER -> "Test answer"

\* required_questions = [q for q in questions if q.get('required', True)]
RequiredOf(questions) == SelectSeq(questions, LAMBDA q : q.required)

InitHappy ==
    /\ sessions = EmptyDict
    /\ resp = NoResponse
    /\ calls = 0
    /\ fn = "test_api"
    /\ arg \in [session_id : HappySessions, original_prompt : HappyPrompts]
    /\ out = <<>>

\* the k-th request of the walk is the next one
Walk(k) == fn = "test_api" /\ calls = k - 1 /\ calls' = k

HappyRefine ==
    Walk(1) /\ phase1_refine_prompt(arg.session_id, arg.original_prompt, Delivered)
HappyApprove ==
    Walk(2) /\ phase1_approve(arg.session_id, TRUE, "", Delivered)
HappyQuestions ==
    Walk(3) /\ phase2_generate_questions(arg.session_id, Delivered)

\* for i, q in enumerate(required_questions[:2]): the answer to the k-th
\* required question of the stored question list, if there is one
HappyAnswer(k) ==
    LET required_questions == RequiredOf(QuestionsOf(sessions[arg.session_id]))
    IN IF k <= Len(required_questions)
       THEN phase2_submit_answer(arg.session_id, required_questions[k].id,
                                 FirstOption(required_questions[k].id))
       ELSE UNCHANGED <<sessions, resp, fn, arg, out>>

HappyAnswerFirst == Walk(4) /\ HappyAnswer(1)
HappyAnswerSecond == Walk(5) /\ HappyAnswer(2)
HappyAnalyze == Walk(6) /\ phase3_narrative_analysis(arg.session_id, Delivered)
HappyPlan == Walk(7) /\ phase4_scene_planning(arg.session_id, Delivered)

NextHappy ==
    \/ HappyRefine
    \/ HappyApprove
    \/ HappyQuestions
    \/ HappyAnswerFirst
    \/ HappyAnswerSecond
    \/ HappyAnalyze
    \/ HappyPlan

SpecHappy == InitHappy /\ [][NextHappy]_vars

-----------------------------------------------------------------------------
(* The parameters scene planning and narrative pacing take from the answers *)

\* generate_plan: total_duration
PlanTotalDuration(answers) ==
    _parse_duration(Get(answers, "target_duration", "1-3 minutes"))

\* generate_plan: cuts_per_minute
PlanCutsPerMinute(answers) ==
    PlanCuts(Split(Lower(Get(answers, "editing_rhythm", "Medium")))[1])

\* C19: for every duration answer and every rhythm answer, the total runtime
\* and the cuts per minute generate_plan uses are the total_duration_seconds
\* and the cuts per minute calculate_pacing computes from the same answers
C19_SameDurationAndCuts ==
    (fn = "generate_plan" /\ out # NONE /\ ~Raised(Val(out))) =>
        LET answers == AnswersFrom(arg.duration, arg.rhythm)
            pacing == calculate_pacing(answers, <<>>)
        IN /\ PlanTotalDuration(answers) = pacing.total_duration_seconds
           /\ PlanCutsPerMinute(answers) = pacing.cuts_per_minute

-----------------------------------------------------------------------------
(* identify_narrative_arc over prompts and answers                         *)

ArcPrompts ==
    {"",
     "Nothing special",
     "A tragedy and a comedy",
     "First a comedy, then a mystery",
     "A mystery",
     "Interview about my trip",
     "Our wedding day",
     "A love story with obstacles",
     "The hero journey of a documentary"}

\* an absent answer, or options of the emotional_tone question
ArcTones ==
    {NONE, Some("Joyful / Uplifting"), Some("Melancholic / Sad"),
     Some("Romantic / Tender"), Some("Inspirational / Motivational")}

\* an absent answer, or a source material answer
ArcSources == {NONE, Some("interview footage"), Some("interview footage and b-roll")}

ArcAnswers(tone, source) ==
    LET a == IF IsNone(tone) THEN EmptyDict ELSE Put(EmptyDict, "emotional_tone", Val(tone))
    IN IF IsNone(source) THEN a ELSE Put(a, "source_material", Val(source))

InitArc ==
    /\ sessions = EmptyDict
    /\ resp = NoResponse
    /\ calls = 0
    /\ fn = "identify_narrative_arc"
    /\ arg \in [prompt : ArcPrompts, tone : ArcTones, source : ArcSources]
    /\ out = NONE

ApplyArc ==
    /\ fn = "identify_narrative_arc"
    /\ out = NONE
    /\ out' = Some(identify_narrative_arc(arg.prompt, ArcAnswers(arg.tone, arg.source)))
    /\ UNCHANGED <<sessions, resp, calls, fn, arg>>

NextArc == ApplyArc

SpecArc == InitArc /\ [][NextArc]_vars

\* the default identify_narrative_arc takes from the content of the prompt
ContentDefault(prompt_lower) ==
    IF Contains(prompt_lower, "interview") THEN "interview"
    ELSE IF ContainsAny(prompt_lower, {"wedding", "event", "vacation", "trip"}) THEN "montage"
    ELSE "documentary"

\* the archetypes that hold the highest score
TopArcs(scores) == {i \in DOMAIN scores : \A o \in DOMAIN scores : scores[o] <= scores[i]}

\* C20: identify_narrative_arc returns the archetype with the highest score
\* when that score is positive and no other archetype has it, and the default
\* taken from the content of the prompt when archetypes tie for the highest
\* score or every score is zero
C20_TiesFallBackToDefault ==
    (fn = "identify_narrative_arc" /\ out # NONE) =>
        LET scores == arc_scores(arg.prompt, ArcAnswers(arg.tone, arg.source))
            top == TopArcs(scores)
        IN IF Cardinality(top) = 1 /\ \A i \in top : scores[i] > 0
           THEN \A i \in top : Val(out) = narrative_archetypes[i].arc
           ELSE Val(out) = ContentDefault(Lower(arg.prompt))

-----------------------------------------------------------------------------
(* The narrative analysis of an approved prompt: phase1_approve stores the
   improved text of the refiner as final_prompt, and phase3 analyzes it with
   the answers of the session. *)

ScenarioPrompts ==
    {"Make a nice video about my vacation", "Edit my trip", "Our wedding day"}

ScenarioTones == {"Joyful / Uplifting", "Melancholic / Sad", "Romantic / Tender"}

ScenarioDurations ==
    {"15-30 seconds (Short social media)", "1-3 minutes (YouTube short/Medium)",
     "3-10 minutes (Long YouTube)"}

ScenarioAnswers(a) ==
    Put(Put(Put(EmptyDict, "target_duration", a.duration), "editing_rhythm", a.rhythm),
        "emotional_tone", a.tone)

InitScenario ==
    /\ sessions = EmptyDict
    /\ resp = NoResponse
    /\ calls = 0
    /\ fn = "analyze"
    /\ arg \in [prompt : ScenarioPrompts, duration : ScenarioDurations,
                rhythm : RhythmOptions, tone : ScenarioTones]
    /\ out = NONE

\* final_prompt = improved_prompt of refine(prompt); analyze(final_prompt, answers, ...)
AnalyzeApproved ==
    /\ fn = "analyze"
    /\ out = NONE
    /\ out' = Some(analyze(Some(refine(arg.prompt).improved_prompt),
                           ScenarioAnswers(arg), NONE))
    /\ UNCHANGED <<sessions, resp, calls, fn, arg>>

NextScenario == AnalyzeApproved

SpecScenario == InitScenario /\ [][NextScenario]_vars

\* C21: for the prompt 'Make a nice video about my vacation', refined and
\* approved, with the answers 1-3 minutes, Medium and Joyful / Uplifting, the
\* narrative analysis returns the archetype montage with 5 emotional beats
C21_VacationIsMontage ==
    (/\ fn = "analyze"
     /\ out # NONE
     /\ arg.prompt = "Make a nice video about my vacation"
     /\ arg.duration = "1-3 minutes (YouTube short/Medium)"
     /\ arg.rhythm = "Medium (balanced, standard pacing)"
     /\ arg.tone = "Joyful / Uplifting") =>
        /\ ~Raised(Val(out))
        /\ Val(Val(out).value).narrative_arc = "montage"
        /\ Len(Val(Val(out).value).emotional_progression) = 5

-----------------------------------------------------------------------------
(* The stages of the scenes of a plan                                      *)

\* the stage a scene shows in its goal: '<Stage Title>: <emotion> (<n>% intensity)'
StageOf(scene) == BeforeSep(scene.goal, ": ")

\* C22: in every plan, of 3 to 8 scenes, the first scene is the hook with the
\* transition 'cut', there is a climax scene, the last scene is the
\* resolution, and from 5 scenes on the stages are hook, setup, rising action
\* (repeated), climax, resolution
C22_StageAssignment ==
    Planned =>
        LET n == Len(PlannedScenes)
        IN /\ StageOf(PlannedScenes[1]) = "Hook"
           /\ PlannedScenes[1].transition = "cut"
           /\ \E k \in 1..n : StageOf(PlannedScenes[k]) = "Climax"
           /\ StageOf(PlannedScenes[n]) = "Resolution"
           /\ n >= 5 =>
                  /\ StageOf(PlannedScenes[2]) = "Setup"
                  /\ \A k \in 3..(n - 2) : StageOf(PlannedScenes[k]) = "Rising Action"
                  /\ StageOf(PlannedScenes[n - 1]) = "Climax"

\* the emotional progression generate_plan receives in the narrative
PlannedProgression == Val(PlanInputs(arg).narrative).emotional_progression

\* the goal _generate_scenes writes for a stage title and a beat
GoalOf(title, beat) ==
    title \o ": " \o beat.emotion \o " (" \o IntStr(beat.intensity) \o "% intensity)"

\* C23: in every plan, the emotion and the intensity a scene shows are those
\* of the beat of the emotional progression that has the name of the scene's
\* stage: the climax scene shows the climax beat, the resolution scene the
\* resolution beat
C23_BeatOfTheStage ==
    Planned =>
        \A k \in DOMAIN PlannedScenes :
            \E b \in DOMAIN PlannedProgression :
                /\ StageTitle(PlannedProgression[b].beat) = StageOf(PlannedScenes[k])
                /\ PlannedScenes[k].goal =
                       GoalOf(StageOf(PlannedScenes[k]), PlannedProgression[b])

-----------------------------------------------------------------------------
(* The rhythm the analysis takes from the editing_rhythm answer            *)

Analyzed == fn = "analyze" /\ out # NONE /\ ~Raised(Val(out))
Analysis == Val(Val(out).value)

\* C24: for each editing_rhythm option of the question catalog the analysis
\* uses the table of the declared rhythm: 'Slow (...)' gives a hook intensity
\* of 0.3 and 8 cuts per minute, 'Fast (...)' 0.7 and 30, 'Medium (...)' and
\* 'Variable (...)' 0.5 and 15
C24_RhythmOfTheAnswer ==
    Analyzed =>
        LET hook == Analysis.emotional_progression[1].intensity
            cuts == Analysis.pacing_recommendation.cuts_per_minute
        IN IF StartsWith(arg.rhythm, "Slow") THEN hook = 30 /\ cuts = 8
           ELSE IF StartsWith(arg.rhythm, "Fast") THEN hook = 70 /\ cuts = 30
           ELSE hook = 50 /\ cuts = 15

-----------------------------------------------------------------------------
(* WebhookNotifier._send_with_retry, step by step: the attempts of one
   notification and the waits between them. arg is the sink, the outcome of
   each attempt; out holds the loop variable, the attempts made, the seconds
   slept and the value returned. *)

RetrySinks == [1..max_retries -> AttemptOutcomes]

InitRetry ==
    /\ sessions = EmptyDict
    /\ resp = NoResponse
    /\ calls = 0
    /\ fn = "_send_with_retry"
    /\ arg \in RetrySinks
    /\ out = [pc |-> "send", attempt |-> 0, attempts |-> 0, waits |-> <<>>,
              returned |-> NONE]

\* wait_time with no growth
wait_time_fixed(attempt) == 1
\* wait_time = 2 ** attempt
wait_time(attempt) == 2 ^ attempt

\* if await self._send_webhook(...): return True; the failed attempt goes on
\* to the sleep if attempt < max_retries - 1, else the loop ends
SendAttempt ==
    /\ fn = "_send_with_retry"
    /\ out.pc = "send"
    /\ out' = IF _send_webhook(arg[out.attempt + 1])
              THEN [out EXCEPT !.attempts = @ + 1, !.pc = "done", !.returned = Some(TRUE)]
              ELSE IF out.attempt < max_retries - 1
              THEN [out EXCEPT !.attempts = @ + 1, !.pc = "sleep"]
              ELSE [out EXCEPT !.attempts = @ + 1, !.pc = "done", !.returned = Some(FALSE)]
    /\ UNCHANGED <<sessions, resp, calls, fn, arg>>

\* await asyncio.sleep(wait_time), then the next round of the loop
Sleep ==
    /\ fn = "_send_with_retry"
    /\ out.pc = "sleep"
    /\ out' = [out EXCEPT !.waits = Append(@, wait_time(out.attempt)),
                          !.attempt = @ + 1,
                          !.pc = "send"]
    /\ UNCHANGED <<sessions, resp, calls, fn, arg>>

NextRetry == SendAttempt \/ Sleep

\* the event loop runs the coroutine on: an attempt ends within the client
\* timeout and a sleep ends after its time
SpecRetry == InitRetry /\ [][NextRetry]_vars /\ WF_vars(NextRetry)

\* the attempts that succeed on the sink
Successes(sink) == {k \in 1..max_retries : _send_webhook(sink[k])}

RetryBounded ==
    fn = "_send_with_retry" =>
        /\ out.attempts <= max_retries
        /\ \A k \in 1..Len(out.waits) : out.waits[k] = 2 ^ (k - 1)
        /\ out.pc = "done" =>
               /\ Val(out.returned) = _send_with_retry(arg)
               /\ Val(out.returned) = (Successes(arg) # {})
               /\ Val(out.returned) => out.attempts = MinOf(Successes(arg))
               /\ ~Val(out.returned) => out.attempts = max_retries
               /\ Len(out.waits) = out.attempts - 1

\* C25: _send_with_retry makes at most max_retries attempts, stops at the
\* first success and returns true, sleeps 2^k seconds after failed attempt k
\* only when another attempt follows, returns false after max_retries
\* failures, and always returns
C25_BoundedRetryWithBackoff ==
    /\ []RetryBounded
    /\ <>(fn = "_send_with_retry" /\ out.pc = "done")

\* every attempt failed: three attempts, waits of 1 and 2 seconds, false
C25_Witness ==
    /\ fn = "_send_with_retry"
    /\ out.pc = "done"
    /\ out.returned = Some(FALSE)
    /\ out.attempts = 3
    /\ out.waits = <<1, 2>>

-----------------------------------------------------------------------------
(* The questions that depend on an answer                                  *)

\* the 'condition' entries of question_templates: id, key, expected substring
DependentQuestions ==
    {<<"voice_language", "voice_over_needed", "Yes">>,
     <<"voice_gender", "voice_over_needed", "Yes">>,
     <<"voice_age", "voice_over_needed", "Yes">>,
     <<"subtitle_style", "subtitles_enabled", "Yes">>}

\* the ids of a question list
IdsOf(questions) == {questions[i].id : i \in DOMAIN questions}

\* C26: a question with a dependency is returned by generate_questions if and
\* only if it is unanswered and the existing answer for its dependency key
\* contains the expected substring
C26_DependentQuestions ==
    (fn = "generate_questions" /\ Len(out) > 0) =>
        \A d \in DependentQuestions :
            d[1] \in IdsOf(out[1])
                <=> /\ ~Has(AnswersTo(arg.answered), d[1])
                    /\ Contains(Get(AnswersTo(arg.answered), d[2], ""), d[3])

-----------------------------------------------------------------------------
(* Two sessions in one store: the requests of clients that name session A or
   session B, in any order. *)

IsolatedSessions == {"A", "B"}
IsolatedPrompt == "Edit a 30 second tiktok"
IsolatedUrl == Some(WebhookUrlPrefix \o "1/x")
IsolatedAnswer == "Slow (contemplative, long takes, artistic)"

\* the number of requests of one run
MaxIsolatedCalls == 3

IsolatedCounted == calls < MaxIsolatedCalls /\ calls' = calls + 1

IsoUpload ==
    IsolatedCounted /\ \E sid \in IsolatedSessions : upload_video(sid, "ok", Delivered)
IsoConfigureWebhook ==
    IsolatedCounted /\ \E sid \in IsolatedSessions :
                           configure_webhook(sid, IsolatedUrl, TRUE, Delivered)
IsoRefine ==
    IsolatedCounted /\ \E sid \in IsolatedSessions :
                           phase1_refine_prompt(sid, IsolatedPrompt, Delivered)
IsoApprove ==
    IsolatedCounted /\ \E sid \in IsolatedSessions, approved \in BOOLEAN :
                           phase1_approve(sid, approved, "shorter, please", Delivered)
IsoQuestions ==
    IsolatedCounted /\ \E sid \in IsolatedSessions : phase2_generate_questions(sid, Delivered)
IsoAnswer ==
    IsolatedCounted /\ \E sid \in IsolatedSessions :
                           phase2_submit_answer(sid, "editing_rhythm", IsolatedAnswer)
IsoAnalyze ==
    IsolatedCounted /\ \E sid \in IsolatedSessions : phase3_narrative_analysis(sid, Delivered)
IsoPlan ==
    IsolatedCounted /\ \E sid \in IsolatedSessions : phase4_scene_planning(sid, Delivered)
IsoTranscribe ==
    IsolatedCounted /\ \E sid \in IsolatedSessions : start_transcription(sid, Delivered)
IsoVisualAnalysis ==
    IsolatedCounted /\ \E sid \in IsolatedSessions : start_visual_analysis(sid, Delivered)
IsoExecute ==
    IsolatedCounted /\ \E sid \in IsolatedSessions : execute("execute_render", sid, Delivered)

NextIsolation ==
    \/ IsoUpload
    \/ IsoConfigureWebhook
    \/ IsoRefine
    \/ IsoApprove
    \/ IsoQuestions
    \/ IsoAnswer
    \/ IsoAnalyze
    \/ IsoPlan
    \/ IsoTranscribe
    \/ IsoVisualAnalysis
    \/ IsoExecute

SpecIsolation == Init /\ [][NextIsolation]_vars

\* the endpoints that call get_session and so create the session they name
CreatingOps == {"upload", "webhook", "phase1_refine"}

\* C27: a request that names one session never changes another session and
\* never removes a session from the store; a request that names an unknown
\* session is rejected with an error and leaves the store as it is, unless
\* it goes to upload, webhook configuration or phase-1 refine
C27_SessionIsolation ==
    [][/\ \A b \in DOMAIN sessions :
              /\ b \in DOMAIN sessions'
              /\ b # resp'.sid => sessions'[b] = sessions[b]
       /\ DOMAIN sessions' \subseteq DOMAIN sessions \cup {resp'.sid}
       /\ (resp'.sid \notin DOMAIN sessions /\ resp'.op \notin CreatingOps)
              => resp'.status >= 400 /\ sessions' = sessions]_vars

\* session A is refined, session B has just been created by an upload, and
\* the store holds both
C27_Witness ==
    /\ DOMAIN sessions = {"A", "B"}
    /\ resp.op = "upload" /\ resp.sid = "B" /\ resp.status = 200
    /\ ~IsNone(sessions["A"].data.improved_prompt)
    /\ IsNone(sessions["B"].data.improved_prompt)

-----------------------------------------------------------------------------
(* Phase 2 of one session whose prompt is refined and approved: requests for
   the questions and answers in any order. out records whether an answer
   has been acknowledged with can_proceed = true. *)

ProceedPrompts == {"Make a nice video about my vacation", "Edit my trip", "x"}
ProceedQuestionIds == {"editing_rhythm", "source_material", "music_preference", "note"}

\* the number of requests of one run
MaxProceedCalls == 6

InitProceed ==
    /\ sessions = EmptyDict
    /\ resp = NoResponse
    /\ calls = 0
    /\ fn = "phase2"
    /\ arg \in [session_id : {"s1"}, original_prompt : ProceedPrompts]
    /\ out = FALSE

ProceedRefine ==
    /\ fn = "phase2" /\ calls = 0 /\ calls' = 1
    /\ phase1_refine_prompt(arg.session_id, arg.original_prompt, Delivered)
ProceedApprove ==
    /\ fn = "phase2" /\ calls = 1 /\ calls' = 2
    /\ phase1_approve(arg.session_id, TRUE, "", Delivered)
ProceedQuestions ==
    /\ fn = "phase2" /\ calls >= 2 /\ calls < MaxProceedCalls /\ calls' = calls + 1
    /\ phase2_generate_questions(arg.session_id, Delivered)

\* the answer request, and the acknowledgement kept in out
ProceedAnswer ==
    /\ fn = "phase2" /\ calls >= 2 /\ calls < MaxProceedCalls /\ calls' = calls + 1
    /\ \E question_id \in ProceedQuestionIds :
           submit_answer(arg.session_id, question_id, FirstOption(question_id))
    /\ out' = (out \/ Val(resp'.body).can_proceed)
    /\ UNCHANGED <<fn, arg>>

NextProceed ==
    \/ ProceedRefine
    \/ ProceedApprove
    \/ ProceedQuestions
    \/ ProceedAnswer

SpecProceed == InitProceed /\ [][NextProceed]_vars

\* C28: once an answer has been acknowledged with can_proceed = true, every
\* later answer of the session is acknowledged with can_proceed = true,
\* whatever requests for the questions come in between
C28_CompletenessMonotonic ==
    (fn = "phase2" /\ out /\ resp.op = "phase2_answer") => Val(resp.body).can_proceed

-----------------------------------------------------------------------------
(* The approved prompt of a session *)

\* the improved prompts a successful refinement of one of the prompts stores
StoredImprovements ==
    {refine(p).improved_prompt : p \in {q \in Prompts : ValidPromptRefinement(refine(q))}}

\* C29: in every session where prompt_approved is true, final_prompt is a
\* non-empty string, the improved prompt a successful refinement stored
C29_ApprovedPromptDefined ==
    \A sid \in DOMAIN sessions :
        sessions[sid].data.prompt_approved =>
            /\ ~IsNone(sessions[sid].data.final_prompt)
            /\ Val(sessions[sid].data.final_prompt) # ""
            /\ Val(sessions[sid].data.final_prompt) \in StoredImprovements

-----------------------------------------------------------------------------
(* Plans for the answers on voice-over and subtitles *)

\* the options of voice_over_needed and of subtitles_enabled, or no answer
VoiceOverAnswers ==
    {NONE, Some("Yes, single voice"), Some("Yes, multiple voices"),
     Some("No voice-over needed")}
SubtitleAnswers ==
    {NONE, Some("Yes, burned-in (permanent on video)"),
     Some("Yes, SRT file (separate, optional)"), Some("No subtitles needed")}
VoicedRhythms == {"Medium (balanced, standard pacing)", "Fast (dynamic, quick cuts, energetic)"}

\* the answers dictionary of one input
VoicedAnswers(a) ==
    LET timed == AnswersFrom(a.duration, Some(a.rhythm))
        voiced == IF IsNone(a.voice_over_needed) THEN timed
                  ELSE Put(timed, "voice_over_needed", Val(a.voice_over_needed))
    IN IF IsNone(a.subtitles_enabled) THEN voiced
       ELSE Put(voiced, "subtitles_enabled", Val(a.subtitles_enabled))

InitVoiced ==
    /\ sessions = EmptyDict
    /\ resp = NoResponse
    /\ calls = 0
    /\ fn = "generate_plan"
    /\ arg \in [duration : DurationAnswers, rhythm : VoicedRhythms,
                voice_over_needed : VoiceOverAnswers, subtitles_enabled : SubtitleAnswers]
    /\ out = NONE

\* the plan of the answers and of the narrative analyze returns for them
PlanVoiced ==
    /\ fn = "generate_plan"
    /\ out = NONE
    /\ out' = Some(generate_plan([solicitud |-> Some(PlanPrompt),
                                  transcripcion |-> FALSE,
                                  narrative |-> analyze(Some(PlanPrompt), VoicedAnswers(arg),
                                                        NONE).value,
                                  answers |-> VoicedAnswers(arg)]))
    /\ UNCHANGED <<sessions, resp, calls, fn, arg>>

NextVoiced == PlanVoiced

SpecVoiced == InitVoiced /\ [][NextVoiced]_vars

\* C30: in every plan, a scene has the audio role voice_over or a
\* voice-over text only if the voice-over configuration of the plan is
\* enabled, and the subtitle_usage flag of every scene equals the enabled
\* flag of the plan's subtitles
C30_VoiceOverConsistent ==
    Planned =>
        \A k \in DOMAIN PlannedScenes :
            /\ (PlannedScenes[k].audio = "voice_over"
                \/ ~IsNone(PlannedScenes[k].voice_over_text))
                   => Val(Val(out).value).voice_over.enabled
            /\ PlannedScenes[k].subtitle_usage = Val(Val(out).value).subtitles.enabled

====
